---- MODULE Spec2Model ----
(***************************************************************************)
(* Verification model of AgenticAiBot4Tomcat.                              *)
(*                                                                         *)
(* Four parts of the repository are modelled, each with its own            *)
(* specification over the shared variables:                                *)
(*   SpecExec     Remote/remote_executor.py   RemoteExecutor.run           *)
(*   SpecTools    the result dictionaries of the tools' run methods        *)
(*   SpecWorkflow Remote/run_remote_workflow.py + Tools/remote_workflow_.. *)
(*   SpecChat     RemoteAgent/chatbot.py      RemoteWorkflowChatBot.chat   *)
(***************************************************************************)
EXTENDS Integers, Sequences, FiniteSets, TLC

(***************************************************************************)
(* Bounds of the model.                                                    *)
(***************************************************************************)
\* largest positive timeout (in clock units) a caller passes to run
MaxTimeout == 1
\* latest clock value at which run may be called
MaxStart == 1
\* bytes of each stream the model records (the first MaxBytes of a stream)
MaxBytes == 2
\* bytes the channel holds unread per stream (the SSH window)
MaxBuf == 2
\* bytes one recv call returns at most (4096 in the source, scaled down)
RecvSize == 1

VARIABLES
    \* ---- RemoteExecutor -------------------------------------------------
    client,         \* self.client: "none" before connect, "connected" after
    pc,             \* position of the thread inside RemoteExecutor.run
    timeout,        \* the timeout argument of the call (0 models None and 0)
    clock,          \* time.time()
    start_time,     \* local start_time
    chanState,      \* "none" | "open" | "closed": the session channel
    chanOpened,     \* number of channels opened by transport.open_session
    chanOut,        \* bytes readable on stdout (recv_ready iff non-empty)
    chanErr,        \* bytes readable on stderr
    exitReady,      \* channel.exit_status_ready()
    exit_status,    \* the command's exit status
    stdout_chunks,  \* local stdout_chunks
    stderr_chunks,  \* local stderr_chunks
    result,         \* what run returned: NoReturn or [out |-> .., err |-> ..]
    outMade,        \* history: stdout bytes the channel made readable
    errMade,        \* history: stderr bytes the channel made readable
    \* ---- one run of a tool ----------------------------------------------
    tool,           \* the tool whose run is executing ("none" when idle)
    tpc,            \* position inside that run
    tos,            \* local os_type
    targs,          \* the call's arguments and configuration
    tstatus,        \* local status ("unset" while the name is unbound)
    texc,           \* history: an exception was raised inside this run
    toolResult,     \* what run returned, or the exception it propagated
    startRun,       \* RemoteTomcatStartTool: what the start command did and returned
    readyRun,       \* RemoteTomcatStartTool: what the readiness poll did and returned
    vtime,          \* RemoteTomcatValidationTool: time.time(), seconds since run began
    deadline,       \* RemoteTomcatValidationTool: local deadline
    status_code,    \* RemoteTomcatValidationTool: local status_code
    last_error,     \* RemoteTomcatValidationTool: local last_error
    responses,      \* history: the status codes of the responses received, in order
    probes,         \* history: number of calls of requests.get
    \* ---- RemoteWorkflowTool.run and RemoteWorkflowRunner.run_for_server --
    wpc,            \* position inside RemoteWorkflowTool.run / run_for_server
    target_servers, \* run's argument target_servers, a string already split at ","
    settings,       \* the loaded YAML settings
    selected,       \* local servers, after the target filter
    idx,            \* index in selected of the loop's current server
    results,        \* run_for_server's local results
    tomcat_home,    \* run_for_server's local tomcat_home is set
    wexc,           \* an exception is propagating out of run_for_server
    exState,        \* the current server's RemoteExecutor
    closeCalls,     \* history: calls of executor.close() for this server
    aggregated,     \* local aggregated
    overall_success,\* local overall_success
    stages,         \* history: stage tools invoked for the current server
    visited,        \* history: servers run_for_server was called with
    wfReturn,       \* what RemoteWorkflowTool.run returned
    \* ---- RemoteWorkflowChatBot -------------------------------------------
    inventory,      \* what _load_servers returns
    awaiting_server_choice,
    pending_request,
    presented_servers,
    selection_attempts,
    active_servers,
    history,        \* len(self.history)
    user_input,     \* the argument of the last call of chat
    reply,          \* what the last call of chat returned, or that it raised
    executed,       \* history: the calls of adapter.run of the last call of chat
    planned,        \* the arguments of _plan_and_execute in the last call of chat
    \* ---- the local Tomcat tools ------------------------------------------
    os_name,        \* os.name
    files,          \* for each install_path, the paths that exist under it
    running,        \* for each install_path, a Tomcat started from its home is alive
    last,           \* history: the last call of a local tool, NoCall while one runs
    removed,        \* history: UninstallTomcat succeeded there, InstallTomcat not since
    ppc,            \* position inside PostInstallTomcat.run
    pargs,          \* PostInstallTomcat.run's arguments
    ptime,          \* time.time() - start_time
    pdeadline,      \* deadline - start_time
    pstart,         \* start_result's status, "none" for None
    pprobes,        \* history: calls of _probe_http in this run
    \* ---- RemoteToolAdapter.run -------------------------------------------
    apc,            \* position inside RemoteToolAdapter.run
    aexec,          \* the RemoteExecutor that run created, "none" before
    aconnects,      \* history: calls of executor.connect() in this run
    acloses,        \* history: calls of executor.close() in this run
    aresult,        \* what run returned
    \* ---- _parse_server_selection ------------------------------------------
    sel_presented,  \* the argument servers
    sel_reply,      \* the argument text
    sel_result,     \* what it returned, None before the call
    \* ---- ChatBot.execute_complex_workflow ---------------------------------
    cpc,            \* position inside execute_complex_workflow
    step_count,     \* local step_count
    step_data,      \* what the LLM answered to the last step request
    requests,       \* history: step requests sent to the LLM
    invocations,    \* history: calls of a tool's run
    summaries,      \* history: final summary requests sent to the LLM
    creturn         \* how execute_complex_workflow ended

execVars == <<client, pc, timeout, clock, start_time, chanState, chanOpened,
              chanOut, chanErr, exitReady, exit_status, stdout_chunks,
              stderr_chunks, result, outMade, errMade>>

startVars == <<startRun, readyRun>>

validationVars == <<vtime, deadline, status_code, last_error, responses, probes>>

toolVars == <<tool, tpc, tos, targs, tstatus, texc, toolResult, startVars, validationVars>>

wfVars == <<wpc, target_servers, settings, selected, idx, results, tomcat_home, wexc, exState,
            closeCalls, aggregated, overall_success, stages, visited, wfReturn>>

chatVars == <<inventory, awaiting_server_choice, pending_request, presented_servers,
              selection_attempts, active_servers, history, user_input, reply,
              executed, planned>>

postVars == <<ppc, pargs, ptime, pdeadline, pstart, pprobes>>

localVars == <<os_name, files, running, last, removed, postVars>>

adapterVars == <<apc, aexec, aconnects, acloses, aresult>>

selectionVars == <<sel_presented, sel_reply, sel_result>>

complexVars == <<cpc, step_count, step_data, requests, invocations, summaries, creturn>>

vars == <<execVars, toolVars, wfVars, chatVars, localVars, adapterVars,
          selectionVars, complexVars>>

\* what the parts of the program other than the named one leave alone
nonExecVars == <<toolVars, wfVars, chatVars, localVars, adapterVars,
                 selectionVars, complexVars>>
nonToolVars == <<execVars, wfVars, chatVars, localVars, adapterVars,
                 selectionVars, complexVars>>
nonWfVars == <<execVars, toolVars, chatVars, localVars, adapterVars,
               selectionVars, complexVars>>
nonChatVars == <<execVars, toolVars, wfVars, localVars, adapterVars,
                 selectionVars, complexVars>>
nonLocalVars == <<execVars, toolVars, wfVars, chatVars, adapterVars,
                  selectionVars, complexVars>>
nonAdapterVars == <<execVars, toolVars, wfVars, chatVars, localVars,
                    selectionVars, complexVars>>
nonSelectionVars == <<execVars, toolVars, wfVars, chatVars, localVars,
                      adapterVars, complexVars>>
nonComplexVars == <<execVars, toolVars, wfVars, chatVars, localVars,
                    adapterVars, selectionVars>>

(***************************************************************************)
(* Helpers on sequences.                                                   *)
(***************************************************************************)
Min(a, b) == IF a <= b THEN a ELSE b

Max(a, b) == IF a >= b THEN a ELSE b

Take(s, n) == SubSeq(s, 1, Min(n, Len(s)))

Drop(s, n) == SubSeq(s, Min(n, Len(s)) + 1, Len(s))

RECURSIVE Join(_)
\* b"".join(chunks)
Join(chunks) == IF chunks = <<>> THEN <<>> ELSE Head(chunks) \o Join(Tail(chunks))

\* The bytes the remote command writes.  run never looks at a byte's value
\* before decoding, so one stream of distinguishable bytes stands for all:
\* the n-th stdout byte is "a" or, at even n, a byte that is not valid UTF-8;
\* the n-th stderr byte is "e" or "f".
OutByte(n) == IF n % 2 = 1 THEN 97 ELSE 255
ErrByte(n) == IF n % 2 = 1 THEN 101 ELSE 102

\* one byte decoded with errors="replace": U+FFFD for an undecodable byte
DecodeByte(b) == IF b < 128 THEN <<"chr", b>> ELSE <<"chr", 65533>>

\* bytes.decode(errors="replace")
Decode(bytes) == [i \in 1..Len(bytes) |-> DecodeByte(bytes[i])]

\* f"Command exited with status {exit_status}"
ExitMessage(status) == <<"Command exited with status", status>>

(***************************************************************************)
(* RemoteExecutor                                                          *)
(***************************************************************************)
\* the clock never needs to run past the latest deadline by more than a poll
MaxClock == MaxStart + MaxTimeout + 2

\* the model records the first MaxBytes bytes of a history
Record(hist, bytes) == Take(hist \o bytes, MaxBytes)

\* chunks.append(data), recording the first MaxBytes bytes captured
AppendChunk(chunks, data) ==
    LET room == MaxBytes - Len(Join(chunks))
    IN  IF room <= 0 THEN chunks ELSE Append(chunks, Take(data, room))

\* channel.recv(4096): the data returned
RecvData(buf) == Take(buf, RecvSize)

\* channel.recv(4096): what stays buffered
RecvRestLosesAll(buf) == <<>>

RecvRest(buf) == Drop(buf, RecvSize)

\* the deadline test of the polling loop
ExpiredLate(now, started, t) == t > 0 /\ (now - started) > t + 1

ExpiredWithoutTimeout(now, started, t) == (now - started) > t

Expired(now, started, t) == t > 0 /\ (now - started) > t

\* channel.close()
ChannelCloseForgotten(state) == state

ChannelClose(state) == "closed"

\* the stderr that run returns
FinalStderrAsCaptured(status, captured) == captured

FinalStderr(status, captured) ==
    IF status /= 0 /\ captured = <<>> THEN ExitMessage(status) ELSE captured

\* run has returned nothing
NoReturn == [returned |-> FALSE]

\* RemoteExecutor.__init__: no client, no call in progress
ExecIdle ==
    /\ client = "none"
    /\ pc = "idle"
    /\ timeout = 0
    /\ start_time = 0
    /\ chanState = "none"
    /\ chanOpened = 0
    /\ chanOut = <<>>
    /\ chanErr = <<>>
    /\ exitReady = FALSE
    /\ exit_status = 0
    /\ stdout_chunks = <<>>
    /\ stderr_chunks = <<>>
    /\ result = NoReturn
    /\ outMade = <<>>
    /\ errMade = <<>>

\* the keys run_for_server may record besides "server"
StageKeys == {"connection", "pre_install_java", "install_tomcat",
              "post_install_tomcat_start", "post_install_tomcat_validation",
              "post_install_tomcat_stop", "error"}

\* results = {"server": name}: no stage recorded yet
NoResults(name) == [server |-> name, st |-> [k \in StageKeys |-> "absent"]]

\* settings that configure no stage
NoSettings == [java |-> FALSE, install |-> FALSE, start |-> FALSE,
               validation |-> FALSE, stop |-> FALSE, home |-> FALSE,
               malformed |-> "no"]

\* RemoteWorkflowTool.run has not been called
WorkflowIdle ==
    /\ wpc = "idle"
    /\ target_servers = <<>>
    /\ settings = NoSettings
    /\ selected = <<>>
    /\ idx = 0
    /\ results = NoResults("")
    /\ tomcat_home = FALSE
    /\ wexc = FALSE
    /\ exState = "none"
    /\ closeCalls = 0
    /\ aggregated = <<>>
    /\ overall_success = TRUE
    /\ stages = <<>>
    /\ visited = <<>>
    /\ wfReturn = [kind |-> "none"]

\* None, and a value that is not None
None == [none |-> TRUE]

Some(v) == [none |-> FALSE, value |-> v]

\* RemoteWorkflowChatBot.__init__, before any call of chat
ChatConstructed ==
    /\ awaiting_server_choice = FALSE
    /\ pending_request = None
    /\ presented_servers = None
    /\ selection_attempts = 0
    /\ active_servers = None
    /\ history = 0
    /\ user_input = <<>>
    /\ reply = "none"
    /\ executed = <<>>
    /\ planned = None

\* default of InstallTomcat.run's install_path
INSTALL_DEFAULT_PATH == "C:\\apache-tomcat"

\* default of UninstallTomcat.run's install_path
UNINSTALL_DEFAULT_PATH == "C:\\temp\\apache-tomcat"

\* the values of install_path
InstallPaths == {INSTALL_DEFAULT_PATH, UNINSTALL_DEFAULT_PATH}

\* os.path.join(install_path, f"apache-tomcat-{version}") for the default version
Home(install_path) == <<install_path, "apache-tomcat-10.1.34">>

\* the install_path a Tomcat home lies under
InstallPathOf(home) == home[1]

\* the paths under one install_path that the tools test: the directory itself
\* ("dir"), the Tomcat home, its bin directory, the two scripts and
\* temp/catalina.pid; TreeOfHome are those rmtree removes
TreeOfHome == {"home", "bin", "startup", "shutdown", "pid"}

\* what a complete extraction leaves
Extracted == {"home", "bin", "startup", "shutdown"}

\* a machine on which Tomcat was installed under install_path before
Installed == {"dir"} \cup Extracted

\* arguments of InstallTomcat.run and UninstallTomcat.run: none, or install_path
PathArgs == {[given |-> FALSE]} \cup {[given |-> TRUE, path |-> p] : p \in InstallPaths}

\* the record of a call: what it was given, what it found, did and returned
NoCall ==
    [tool |-> "none", given |-> FALSE, path |-> "", status |-> "",
     details |-> "", home |-> <<>>, effects |-> {}, before |-> {},
     was_running |-> FALSE, failed |-> {}, named |-> {},
     attempt_start |-> FALSE, attempt_stop |-> FALSE, start_status |-> "none",
     stop_status |-> "none", stops |-> 0, probes |-> 0, probe_ok |-> FALSE]

\* no call of PostInstallTomcat.run
NoArgs ==
    [path |-> "", attempt_start |-> FALSE, attempt_stop |-> FALSE,
     wait |-> [ok |-> FALSE]]

\* PostInstallTomcat.run is not running
PostIdle ==
    /\ ppc = "idle"
    /\ pargs = NoArgs
    /\ ptime = 0
    /\ pdeadline = 0
    /\ pstart = "none"
    /\ pprobes = 0

\* a Windows machine without Tomcat on which no local tool was called
LocalIdle ==
    /\ os_name = "nt"
    /\ files = [p \in InstallPaths |-> {}]
    /\ running = [p \in InstallPaths |-> FALSE]
    /\ last = NoCall
    /\ removed = [p \in InstallPaths |-> FALSE]
    /\ PostIdle

\* RemoteToolAdapter.run has produced no dictionary
NoAdapterResult == [status |-> "none", details |-> "none"]

\* RemoteToolAdapter.run has not been called
AdapterIdle ==
    /\ apc = "idle"
    /\ aexec = "none"
    /\ aconnects = 0
    /\ acloses = 0
    /\ aresult = NoAdapterResult

\* _parse_server_selection has not been called
SelectionIdle ==
    /\ sel_presented = <<>>
    /\ sel_reply = <<>>
    /\ sel_result = None

\* no step answer yet
NoStep == [kind |-> "none"]

\* ChatBot.execute_complex_workflow has not been called
ComplexIdle ==
    /\ cpc = "idle"
    /\ step_count = 0
    /\ step_data = NoStep
    /\ requests = 0
    /\ invocations = 0
    /\ summaries = 0
    /\ creturn = "none"

\* the parts of the program added last are idle
OthersIdle == AdapterIdle /\ SelectionIdle /\ ComplexIdle

\* the chatbot has been constructed over no inventory and never called
ChatIdle ==
    /\ inventory = <<>>
    /\ ChatConstructed

\* no tool is running
ToolsIdle ==
    /\ tool = "none"
    /\ tpc = "idle"
    /\ tos = "unset"
    /\ targs = [cfg |-> TRUE, home |-> TRUE]
    /\ tstatus = "unset"
    /\ texc = FALSE
    /\ toolResult = [kind |-> "none"]
    /\ startRun = [ran |-> FALSE]
    /\ readyRun = [ran |-> FALSE]
    /\ vtime = 0
    /\ deadline = 0
    /\ status_code = [none |-> TRUE]
    /\ last_error = [none |-> TRUE]
    /\ responses = <<>>
    /\ probes = 0

InitExec ==
    /\ ExecIdle
    /\ clock \in {0, MaxStart}
    /\ ToolsIdle
    /\ WorkflowIdle
    /\ ChatIdle
    /\ LocalIdle
    /\ OthersIdle

\* RemoteExecutor.connect
Connect ==
    /\ pc = "idle"
    /\ client = "none"
    /\ client' = "connected"
    /\ UNCHANGED <<pc, timeout, clock, start_time, chanState, chanOpened,
                   chanOut, chanErr, exitReady, exit_status, stdout_chunks,
                   stderr_chunks, result, outMade, errMade>>
    /\ UNCHANGED nonExecVars

\* RemoteExecutor.run, lines 23-37: the checks, open_session, exec_command
RunCall ==
    /\ pc = "idle"
    /\ \E t \in 0..MaxTimeout :
        IF client = "none"
        THEN /\ pc' = "raisedRuntime"
             /\ UNCHANGED <<timeout, start_time, chanState, chanOpened>>
        ELSE /\ pc' = "drainOut"
             /\ timeout' = t
             /\ start_time' = clock
             /\ chanState' = "open"
             /\ chanOpened' = chanOpened + 1
    /\ UNCHANGED <<client, clock, chanOut, chanErr, exitReady, exit_status,
                   stdout_chunks, stderr_chunks, result, outMade, errMade>>
    /\ UNCHANGED nonExecVars

\* lines 40-41: while channel.recv_ready(): stdout_chunks.append(recv(4096))
DrainOut ==
    /\ pc = "drainOut"
    /\ IF chanOut /= <<>>
       THEN /\ stdout_chunks' = AppendChunk(stdout_chunks, RecvData(chanOut))
            /\ chanOut' = RecvRest(chanOut)
            /\ pc' = pc
       ELSE /\ pc' = "drainErr"
            /\ UNCHANGED <<stdout_chunks, chanOut>>
    /\ UNCHANGED <<client, timeout, clock, start_time, chanState, chanOpened,
                   chanErr, exitReady, exit_status, stderr_chunks, result,
                   outMade, errMade>>
    /\ UNCHANGED nonExecVars

\* lines 42-43: while channel.recv_stderr_ready(): stderr_chunks.append(..)
DrainErr ==
    /\ pc = "drainErr"
    /\ IF chanErr /= <<>>
       THEN /\ stderr_chunks' = AppendChunk(stderr_chunks, RecvData(chanErr))
            /\ chanErr' = RecvRest(chanErr)
            /\ pc' = pc
       ELSE /\ pc' = "poll"
            /\ UNCHANGED <<stderr_chunks, chanErr>>
    /\ UNCHANGED <<client, timeout, clock, start_time, chanState, chanOpened,
                   chanOut, exitReady, exit_status, stdout_chunks, result,
                   outMade, errMade>>
    /\ UNCHANGED nonExecVars

\* lines 45-50: the exit status test, then the deadline test
Poll ==
    /\ pc = "poll"
    /\ IF exitReady
       THEN /\ pc' = "finalOut"
            /\ UNCHANGED chanState
       ELSE IF Expired(clock, start_time, timeout)
       THEN /\ pc' = "raisedTimeout"
            /\ chanState' = ChannelClose(chanState)
       ELSE /\ pc' = "sleep"
            /\ UNCHANGED chanState
    /\ UNCHANGED <<client, timeout, clock, start_time, chanOpened, chanOut,
                   chanErr, exitReady, exit_status, stdout_chunks,
                   stderr_chunks, result, outMade, errMade>>
    /\ UNCHANGED nonExecVars

\* line 52: time.sleep(0.1).  The clock advances by the sleep (one unit) or,
\* when the other lines of the iteration took as long again, by two.
Sleep ==
    /\ pc = "sleep"
    /\ pc' = "drainOut"
    /\ \E d \in 1..2 : clock' = Min(clock + d, MaxClock)
    /\ UNCHANGED <<client, timeout, start_time, chanState, chanOpened, chanOut,
                   chanErr, exitReady, exit_status, stdout_chunks,
                   stderr_chunks, result, outMade, errMade>>
    /\ UNCHANGED nonExecVars

\* lines 54-56: recv_exit_status, then the final stdout drain
FinalOut ==
    /\ pc = "finalOut"
    /\ IF chanOut /= <<>>
       THEN /\ stdout_chunks' = AppendChunk(stdout_chunks, RecvData(chanOut))
            /\ chanOut' = RecvRest(chanOut)
            /\ pc' = pc
       ELSE /\ pc' = "finalErr"
            /\ UNCHANGED <<stdout_chunks, chanOut>>
    /\ UNCHANGED <<client, timeout, clock, start_time, chanState, chanOpened,
                   chanErr, exitReady, exit_status, stderr_chunks, result,
                   outMade, errMade>>
    /\ UNCHANGED nonExecVars

\* lines 57-68: the final stderr drain, close, join, decode, return
FinalErr ==
    /\ pc = "finalErr"
    /\ IF chanErr /= <<>>
       THEN /\ stderr_chunks' = AppendChunk(stderr_chunks, RecvData(chanErr))
            /\ chanErr' = RecvRest(chanErr)
            /\ UNCHANGED <<pc, chanState, result>>
       ELSE /\ pc' = "returned"
            /\ chanState' = ChannelClose(chanState)
            /\ result' = [out |-> Decode(Join(stdout_chunks)),
                          err |-> FinalStderr(exit_status,
                                              Decode(Join(stderr_chunks)))]
            /\ UNCHANGED <<stderr_chunks, chanErr>>
    /\ UNCHANGED <<client, timeout, clock, start_time, chanOpened, chanOut,
                   exitReady, exit_status, stdout_chunks, outMade, errMade>>
    /\ UNCHANGED nonExecVars

\* the thread executing run takes its next step
ThreadStep == DrainOut \/ DrainErr \/ Poll \/ Sleep \/ FinalOut \/ FinalErr

\* the remote command writes a byte to stdout; its output precedes its exit
\* status on the channel
ProduceOut ==
    /\ chanState = "open"
    /\ ~exitReady
    /\ Len(chanOut) < MaxBuf
    /\ LET b == OutByte(Len(outMade) + 1)
       IN  /\ chanOut' = Append(chanOut, b)
           /\ outMade' = Record(outMade, <<b>>)
    /\ UNCHANGED <<client, pc, timeout, clock, start_time, chanState,
                   chanOpened, chanErr, exitReady, exit_status, stdout_chunks,
                   stderr_chunks, result, errMade>>
    /\ UNCHANGED nonExecVars

\* the remote command writes a byte to stderr
ProduceErr ==
    /\ chanState = "open"
    /\ ~exitReady
    /\ Len(chanErr) < MaxBuf
    /\ LET b == ErrByte(Len(errMade) + 1)
       IN  /\ chanErr' = Append(chanErr, b)
           /\ errMade' = Record(errMade, <<b>>)
    /\ UNCHANGED <<client, pc, timeout, clock, start_time, chanState,
                   chanOpened, chanOut, exitReady, exit_status, stdout_chunks,
                   stderr_chunks, result, outMade>>
    /\ UNCHANGED nonExecVars

\* the remote command exits
Exit ==
    /\ chanState = "open"
    /\ ~exitReady
    /\ exitReady' = TRUE
    /\ exit_status' \in {0, 1}
    /\ UNCHANGED <<client, pc, timeout, clock, start_time, chanState,
                   chanOpened, chanOut, chanErr, stdout_chunks, stderr_chunks,
                   result, outMade, errMade>>
    /\ UNCHANGED nonExecVars

NextExec ==
    \/ Connect
    \/ RunCall
    \/ DrainOut
    \/ DrainErr
    \/ Poll
    \/ Sleep
    \/ FinalOut
    \/ FinalErr
    \/ ProduceOut
    \/ ProduceErr
    \/ Exit

SpecExec == InitExec /\ [][NextExec]_vars

\* the Python thread running run is always scheduled again
SpecExecFair == SpecExec /\ WF_vars(ThreadStep)

(***************************************************************************)
(* The tools' run methods and the dictionaries they return.                *)
(* Two local checks and three remote tools are modelled step by step; each *)
(* call of the executor, and each subprocess launch, returns one of the    *)
(* outcomes the tool distinguishes or raises.                              *)
(***************************************************************************)
LocalTools == {"check_disk", "check_java"}

RemoteTools == {"remote_disk_check", "remote_java_install", "remote_tomcat_start",
                "remote_tomcat_validation"}

\* the keys of a complete result dictionary
FullKeys == {"name", "status", "command", "output", "details"}

\* a returned dictionary: its keys, its status and what its details say
\* ("absent" for a key the dictionary lacks)
Dict(keys, status, details) ==
    [kind |-> "dict",
     keys |-> keys,
     status |-> IF "status" \in keys THEN status ELSE "absent",
     details |-> IF "details" \in keys THEN details ELSE "absent"]

\* an exception that run let propagate to its caller
Raised(exc) == [kind |-> "raised", exc |-> exc]

\* the first statement of each run
FirstStep(t) ==
    CASE t = "check_disk" -> "usage"
      [] t = "check_java" -> "java"
      [] t = "remote_tomcat_validation" -> "config"
      [] OTHER -> "detect"

\* the dictionary each remote tool builds in its except block
ExceptResult(t) ==
    CASE t = "remote_disk_check" -> Dict(FullKeys, "Failed", "exception")
      [] t = "remote_java_install" ->
            Dict({"name", "status", "details"}, "Failed", "exception")
      [] t = "remote_tomcat_start" -> Dict(FullKeys, "Failed", "exception")
      [] t = "remote_tomcat_validation" -> Dict(FullKeys, "Failed", "exception")

\* CheckJava.run's except block: it reads the local status
CheckJavaExcept(st) ==
    IF st = "unset" THEN Raised("UnboundLocalError")
    ELSE Dict(FullKeys, st, "Exception while checking Java")

\* some caller starts a tool's run
ToolCall ==
    /\ tool = "none"
    /\ \E t \in LocalTools \cup RemoteTools, c \in BOOLEAN, h \in BOOLEAN :
        /\ t \in LocalTools => (c /\ h)
        /\ tool' = t
        /\ targs' = [cfg |-> c, home |-> h]
        /\ tpc' = FirstStep(t)
    /\ UNCHANGED <<tos, tstatus, texc, toolResult>>
    /\ UNCHANGED <<startVars, validationVars>>
    /\ UNCHANGED nonToolVars

\* CheckDisk.run
CheckDiskRun ==
    /\ tool = "check_disk"
    /\ tpc = "usage"
    /\ tpc' = "done"
    /\ \E usage \in {"raises", "low", "enough"} :
        IF usage = "raises"
        THEN /\ texc' = TRUE
             /\ toolResult' = Dict({"name", "status", "command"}, "Failed", "")
        ELSE /\ texc' = texc
             /\ toolResult' = Dict({"name", "space available", "command",
                                    "output", "details", "metrics"},
                                   "", "Free space")
    /\ UNCHANGED <<tool, tos, targs, tstatus>>
    /\ UNCHANGED <<startVars, validationVars>>
    /\ UNCHANGED nonToolVars

\* CheckJava.run, lines 64-69: the java and the javac subprocess
CheckJavaLaunch ==
    /\ tool = "check_java"
    /\ tpc \in {"java", "javac"}
    /\ \E launched \in BOOLEAN :
        IF launched
        THEN /\ tpc' = IF tpc = "java" THEN "javac" ELSE "parse"
             /\ UNCHANGED <<texc, toolResult>>
        ELSE /\ tpc' = "done"
             /\ texc' = TRUE
             /\ toolResult' = CheckJavaExcept(tstatus)
    /\ UNCHANGED <<tool, tos, targs, tstatus>>
    /\ UNCHANGED <<startVars, validationVars>>
    /\ UNCHANGED nonToolVars

\* CheckJava.run, lines 71-83
CheckJavaParse ==
    /\ tool = "check_java"
    /\ tpc = "parse"
    /\ tpc' = "done"
    /\ \E java_major \in {0, 8, 11, 17} :
        /\ tstatus' = IF java_major >= 11 THEN "Success" ELSE "Failed"
        /\ toolResult' = Dict(FullKeys, tstatus', "Detected Java major version")
    /\ UNCHANGED <<tool, tos, targs, texc>>
    /\ UNCHANGED <<startVars, validationVars>>
    /\ UNCHANGED nonToolVars

\* os_type = executor.detect_os(), inside each remote run's try block
DetectOs ==
    /\ tool \in RemoteTools
    /\ tpc = "detect"
    /\ \E os \in {"linux", "windows", "unknown", "raises"} :
        IF os = "raises"
        THEN /\ tpc' = "done"
             /\ texc' = TRUE
             /\ toolResult' = ExceptResult(tool)
             /\ tos' = tos
        ELSE /\ tpc' = "config"
             /\ tos' = os
             /\ UNCHANGED <<texc, toolResult>>
    /\ UNCHANGED <<tool, targs, tstatus>>
    /\ UNCHANGED <<startVars, validationVars>>
    /\ UNCHANGED nonToolVars

\* RemoteDiskCheckTool.run, lines 42-55: the threshold, then the OS branch
DiskConfig ==
    /\ tool = "remote_disk_check"
    /\ tpc = "config"
    /\ IF ~targs.cfg
       THEN /\ tpc' = "done"
            /\ texc' = TRUE
            /\ toolResult' = ExceptResult(tool)
       ELSE IF tos = "unknown"
       THEN /\ tpc' = "done"
            /\ texc' = texc
            /\ toolResult' = Dict(FullKeys, "Failed", "Unsupported operating system")
       ELSE /\ tpc' = "check"
            /\ UNCHANGED <<texc, toolResult>>
    /\ UNCHANGED <<tool, tos, targs, tstatus>>
    /\ UNCHANGED <<startVars, validationVars>>
    /\ UNCHANGED nonToolVars

\* RemoteDiskCheckTool._check_windows / _check_linux, and run's setdefault
DiskCheck ==
    /\ tool = "remote_disk_check"
    /\ tpc = "check"
    /\ tpc' = "done"
    /\ \E o \in {"raises", "error", "garbled", "low", "enough"} :
        /\ texc' = (o = "raises")
        /\ toolResult' =
            CASE o = "raises" -> ExceptResult(tool)
              [] o = "error" -> Dict(FullKeys, "Failed", "Unable to retrieve")
              [] o = "garbled" -> Dict(FullKeys, "Failed", "Unrecognized output")
              [] o = "low" ->
                    Dict({"name", "status", "command", "details", "metrics"}
                            \cup {"output"}, "Failed", "below threshold")
              [] o = "enough" ->
                    Dict({"name", "status", "command", "details", "metrics"}
                            \cup {"output"}, "Success", "meets threshold")
    /\ UNCHANGED <<tool, tos, targs, tstatus>>
    /\ UNCHANGED <<startVars, validationVars>>
    /\ UNCHANGED nonToolVars

\* RemoteJavaInstallTool.run: the OS branch and the required configuration
JavaConfig ==
    /\ tool = "remote_java_install"
    /\ tpc = "config"
    /\ IF tos = "unknown"
       THEN /\ tpc' = "done"
            /\ toolResult' = Dict({"name", "status", "details"}, "Failed",
                                  "Unknown OS")
       ELSE IF ~targs.cfg
       THEN /\ tpc' = "done"
            /\ toolResult' = Dict(FullKeys, "Failed", "Missing configuration")
       ELSE /\ tpc' = "existing"
            /\ UNCHANGED toolResult
    /\ UNCHANGED <<tool, tos, targs, tstatus, texc>>
    /\ UNCHANGED <<startVars, validationVars>>
    /\ UNCHANGED nonToolVars

\* RemoteJavaInstallTool.run: java -version on the remote host
JavaExisting ==
    /\ tool = "remote_java_install"
    /\ tpc = "existing"
    /\ \E o \in {"raises", "found", "notfound"} :
        CASE o = "raises" ->
                /\ tpc' = "done"
                /\ texc' = TRUE
                /\ toolResult' = ExceptResult(tool)
          [] o = "found" ->
                /\ tpc' = "done"
                /\ texc' = texc
                /\ toolResult' = Dict(FullKeys, "Success", "already installed")
          [] o = "notfound" ->
                /\ tpc' = IF tos = "linux" THEN "install" ELSE "dirs"
                /\ UNCHANGED <<texc, toolResult>>
    /\ UNCHANGED <<tool, tos, targs, tstatus>>
    /\ UNCHANGED <<startVars, validationVars>>
    /\ UNCHANGED nonToolVars

\* RemoteJavaInstallTool.run: executor commands whose output is not inspected
\* (Linux lines 59-68; Windows _ensure_directory 105-107, environment 162-192)
JavaCommands ==
    /\ tool = "remote_java_install"
    /\ tpc \in {"install", "dirs", "setenv"}
    /\ \E o \in {"raises", "ran"} :
        IF o = "raises"
        THEN /\ tpc' = "done"
             /\ texc' = TRUE
             /\ toolResult' = ExceptResult(tool)
        ELSE /\ tpc' = CASE tpc = "install" -> "verify"
                         [] tpc = "dirs" -> "download"
                         [] tpc = "setenv" -> "verify"
             /\ UNCHANGED <<texc, toolResult>>
    /\ UNCHANGED <<tool, tos, targs, tstatus>>
    /\ UNCHANGED <<startVars, validationVars>>
    /\ UNCHANGED nonToolVars

\* RemoteJavaInstallTool.run, lines 113-155: the download and extract tools,
\* whose own result is returned when its status is not "Success"
JavaDownloadExtract ==
    /\ tool = "remote_java_install"
    /\ tpc \in {"download", "extract"}
    /\ \E st \in {"Success", "Failed"}, caught \in BOOLEAN :
        IF st = "Success"
        THEN /\ ~caught
             /\ tpc' = IF tpc = "download" THEN "extract" ELSE "setenv"
             /\ UNCHANGED <<texc, toolResult>>
        ELSE /\ tpc' = "done"
             /\ texc' = caught
             /\ toolResult' = Dict(IF caught THEN FullKeys
                                   ELSE FullKeys \cup {"metadata"},
                                   "Failed", "download or extraction failed")
    /\ UNCHANGED <<tool, tos, targs, tstatus>>
    /\ UNCHANGED <<startVars, validationVars>>
    /\ UNCHANGED nonToolVars

\* RemoteJavaInstallTool.run: the final java -version (lines 69-77, 197-210)
JavaVerify ==
    /\ tool = "remote_java_install"
    /\ tpc = "verify"
    /\ tpc' = "done"
    /\ \E o \in {"raises", "found", "notfound"} :
        /\ texc' = (o = "raises")
        /\ toolResult' =
            CASE o = "raises" -> ExceptResult(tool)
              [] o = "found" -> Dict(FullKeys, "Success", "installed")
              [] o = "notfound" -> Dict(FullKeys, "Failed", "installed")
    /\ UNCHANGED <<tool, tos, targs, tstatus>>
    /\ UNCHANGED <<startVars, validationVars>>
    /\ UNCHANGED nonToolVars

\* RemoteTomcatStartTool.run, lines 41-80
StartConfig ==
    /\ tool = "remote_tomcat_start"
    /\ tpc = "config"
    /\ IF ~targs.home
       THEN /\ tpc' = "done"
            /\ toolResult' = Dict(FullKeys, "Failed",
                                  "Tomcat home directory not supplied")
       ELSE IF tos = "unknown"
       THEN /\ tpc' = "done"
            /\ toolResult' = Dict(FullKeys, "Failed",
                                  "Unsupported operating system")
       ELSE /\ tpc' = "start"
            /\ UNCHANGED toolResult
    /\ UNCHANGED <<tool, tos, targs, tstatus, texc>>
    /\ UNCHANGED <<startVars, validationVars>>
    /\ UNCHANGED nonToolVars

\* str.strip over the strings that occur
Strip(str) == CASE str = " DB " -> "DB"
                [] str = " "    -> ""
                [] str = "\n"   -> ""
                [] OTHER        -> str

\* what a remote command wrote to its standard error stream
StderrTexts == {"", "\n", "warning: CATALINA_OPTS ignored"}

\* RemoteExecutor.run's second return value for a command that ended with
\* this exit status and wrote this text to standard error
RunStderr(status, captured) ==
    IF status /= 0 /\ captured = ""
    THEN IF status = 1 THEN "Command exited with status 1"
         ELSE "Command exited with status 2"
    ELSE captured

\* the status after the start command returned
StartStatusIgnoresStderr(stderr) == "Success"

StartStatus(stderr) == IF Strip(stderr) = "" THEN "Success" ELSE "Warning"

\* _wait_for_ready_*: the poll succeeded
ReadyOkAlways(stderr) == TRUE

ReadyOk(stderr) == Strip(stderr) = ""

\* _start_windows lines 121-131, _start_linux lines 199-209: the start command
StartCommand ==
    /\ tool = "remote_tomcat_start"
    /\ tpc = "start"
    /\ \/ \E o \in {"timeout", "raises"} :
            /\ tpc' = "done"
            /\ texc' = TRUE
            /\ tstatus' = tstatus
            /\ startRun' = [ran |-> TRUE, outcome |-> o]
            /\ toolResult' = Dict(FullKeys, "Failed",
                                  IF o = "timeout"
                                  THEN "Remote command timed out"
                                  ELSE "exception")
       \/ \E status \in {0, 1}, captured \in StderrTexts :
            /\ tpc' = "ready"
            /\ startRun' = [ran |-> TRUE, outcome |-> "returned",
                            exit_status |-> status, captured |-> captured,
                            stderr |-> RunStderr(status, captured)]
            /\ tstatus' = StartStatus(RunStderr(status, captured))
            /\ UNCHANGED <<texc, toolResult>>
    /\ UNCHANGED <<tool, tos, targs, readyRun, validationVars>>
    /\ UNCHANGED nonToolVars

\* what the poll script does: exit 0 once the port listens (a login shell may
\* still write to standard error), or exit 1 with its message at the deadline
ReadyPolls ==
    {[listening |-> TRUE, exit_status |-> 0, captured |-> c] : c \in StderrTexts}
        \cup {[listening |-> FALSE, exit_status |-> 1,
               captured |-> "Tomcat port not listening"]}

\* _wait_for_ready_* and the rest of _start_windows / _start_linux
StartReady ==
    /\ tool = "remote_tomcat_start"
    /\ tpc = "ready"
    /\ tpc' = "done"
    /\ \/ /\ readyRun' = [ran |-> TRUE, outcome |-> "raises"]
          /\ texc' = TRUE
          /\ toolResult' = Dict(FullKeys, "Failed", "exception")
       \/ /\ readyRun' = [ran |-> TRUE, outcome |-> "timeout",
                          ready_error |-> "Remote command timed out",
                          ready_ok |-> FALSE]
          /\ texc' = TRUE
          /\ toolResult' = Dict(FullKeys \cup {"tomcat_home"}, "Failed",
                                "Timed out waiting for Tomcat port")
       \/ \E poll \in ReadyPolls :
            LET ready_error == RunStderr(poll.exit_status, poll.captured)
                ready_ok == ReadyOk(ready_error)
            IN  /\ readyRun' = [ran |-> TRUE, outcome |-> "returned",
                                listening |-> poll.listening,
                                exit_status |-> poll.exit_status,
                                captured |-> poll.captured,
                                ready_error |-> ready_error,
                                ready_ok |-> ready_ok]
                /\ texc' = FALSE
                /\ toolResult' =
                    IF ~ready_ok
                    THEN Dict(FullKeys \cup {"tomcat_home"}, "Failed",
                              "Timed out waiting for Tomcat port")
                    ELSE Dict(FullKeys \cup {"tomcat_home"},
                              IF tstatus /= "Warning" THEN "Success" ELSE tstatus,
                              "Tomcat started and port is listening")
    /\ UNCHANGED <<tool, tos, targs, tstatus, startRun, validationVars>>
    /\ UNCHANGED nonToolVars

\* largest wait_seconds a configuration carries
MaxWait == 3

\* requests.get(url, timeout=3)
GET_TIMEOUT == 3

\* time.sleep(2)
POLL_SLEEP == 2

\* config["wait_seconds"], config["port"] and host_template: values that
\* int() and format() accept, or one of them that makes them raise
ValidationConfigs ==
    {[ok |-> TRUE, wait_seconds |-> w] : w \in (0 - 1)..MaxWait}
        \cup {[ok |-> FALSE]}

\* the status codes a response carries
StatusCodes == {200, 302, 404, 500}

\* requests.Response.ok
ResponseOk(code) == code < 400

\* run line 77: running
RunningOnlyOk(code) == (~code.none) /\ code.value < 400

Running(code) == (~code.none) /\ 200 =< code.value /\ code.value < 500

\* run lines 77-98: the payload
ValidationPayload(code, home) ==
    [kind |-> "dict",
     keys |-> FullKeys \cup {"url", "status_code"}
                 \cup (IF home THEN {"tomcat_home"} ELSE {}),
     status |-> IF Running(code) THEN "Success" ELSE "Failed",
     details |-> IF Running(code) THEN "Tomcat responded"
                 ELSE "Tomcat did not respond",
     status_code |-> code]

\* run lines 52-63: the configuration is read, the deadline is set
ValidationConfig ==
    /\ tool = "remote_tomcat_validation"
    /\ tpc = "config"
    /\ \E config \in ValidationConfigs :
        IF ~config.ok
        THEN /\ tpc' = "done"
             /\ texc' = TRUE
             /\ toolResult' = ExceptResult(tool)
             /\ UNCHANGED deadline
        ELSE /\ tpc' = "poll"
             /\ deadline' = vtime + Max(config.wait_seconds, 1)
             /\ UNCHANGED <<texc, toolResult>>
    /\ UNCHANGED <<tool, tos, targs, tstatus, startVars>>
    /\ UNCHANGED <<vtime, status_code, last_error, responses, probes>>
    /\ UNCHANGED nonToolVars

\* run lines 65-74: one turn of the loop, a probe and what follows it
ValidationProbe ==
    /\ tool = "remote_tomcat_validation"
    /\ tpc = "poll"
    /\ vtime < deadline
    /\ probes' = probes + 1
    /\ \E took \in 0..GET_TIMEOUT :
        \/ \E code \in StatusCodes :
            /\ responses' = Append(responses, code)
            /\ status_code' = [none |-> FALSE, value |-> code]
            /\ IF ResponseOk(code)
               THEN /\ vtime' = vtime + took
                    /\ last_error' = last_error
                    /\ tpc' = "done"
                    /\ toolResult' =
                          ValidationPayload([none |-> FALSE, value |-> code],
                                            targs.home)
               ELSE /\ vtime' = vtime + took + POLL_SLEEP
                    /\ last_error' = [none |-> FALSE, value |-> <<"HTTP", code>>]
                    /\ UNCHANGED <<tpc, toolResult>>
            /\ UNCHANGED texc
        \/ /\ vtime' = vtime + took + POLL_SLEEP
           /\ last_error' = [none |-> FALSE, value |-> <<"RequestException">>]
           /\ UNCHANGED <<responses, status_code, tpc, toolResult, texc>>
        \/ /\ vtime' = vtime + took
           /\ tpc' = "done"
           /\ texc' = TRUE
           /\ toolResult' = ExceptResult(tool)
           /\ UNCHANGED <<responses, status_code, last_error>>
    /\ UNCHANGED <<tool, tos, targs, tstatus, startVars, deadline>>
    /\ UNCHANGED nonToolVars

\* run lines 65, 75-98: the deadline has passed
ValidationTimedOut ==
    /\ tool = "remote_tomcat_validation"
    /\ tpc = "poll"
    /\ ~(vtime < deadline)
    /\ tpc' = "done"
    /\ toolResult' = ValidationPayload(status_code, targs.home)
    /\ UNCHANGED <<tool, tos, targs, tstatus, texc, startVars, validationVars>>
    /\ UNCHANGED nonToolVars

NextTools ==
    \/ ToolCall
    \/ CheckDiskRun
    \/ CheckJavaLaunch
    \/ CheckJavaParse
    \/ DetectOs
    \/ DiskConfig
    \/ DiskCheck
    \/ JavaConfig
    \/ JavaExisting
    \/ JavaCommands
    \/ JavaDownloadExtract
    \/ JavaVerify
    \/ StartConfig
    \/ StartCommand
    \/ StartReady
    \/ ValidationConfig
    \/ ValidationProbe
    \/ ValidationTimedOut

InitTools ==
    /\ ExecIdle
    /\ clock = 0
    /\ ToolsIdle
    /\ WorkflowIdle
    /\ ChatIdle
    /\ LocalIdle
    /\ OthersIdle

SpecTools == InitTools /\ [][NextTools]_vars

(***************************************************************************)
(* RemoteWorkflowTool.run and RemoteWorkflowRunner.run_for_server          *)
(***************************************************************************)

\* number of sections of servers.ini
MaxServers == 2

\* the sections of servers.ini, in file order
AllServers == << [name |-> "Web1", host |-> "10.0.0.1"],
                 [name |-> "db",   host |-> "10.0.0.2"],
                 [name |-> "web1", host |-> "10.0.0.3"],
                 [name |-> "app",  host |-> "10.0.0.1"] >>

\* what load_server_ini returns
Inventory == SubSeq(AllServers, 1, Min(MaxServers, Len(AllServers)))

\* str.lower over the strings that occur
Lower(str) == CASE str = "DB"   -> "db"
                [] str = "Web1" -> "web1"
                [] str = "WEB1" -> "web1"
                [] OTHER        -> str

\* values of the argument target_servers; <<>> is None or an empty list
TargetInputs == {<<>>, <<"web1">>, <<" DB ", " ">>, <<"ghost">>,
                 <<"10.0.0.1", "WEB1">>, <<" ">>}

\* settings.yaml files: which stages are configured, whether some Tomcat home
\* is configured under post_install, and which section, if any, is not a
\* mapping
SettingsChoices ==
    { [java |-> TRUE,  install |-> TRUE,  start |-> TRUE,  validation |-> TRUE,
       stop |-> TRUE,  home |-> FALSE, malformed |-> "no"],
      [java |-> FALSE, install |-> FALSE, start |-> TRUE,  validation |-> TRUE,
       stop |-> TRUE,  home |-> FALSE, malformed |-> "no"],
      [java |-> FALSE, install |-> FALSE, start |-> FALSE, validation |-> TRUE,
       stop |-> TRUE,  home |-> TRUE,  malformed |-> "no"],
      [java |-> TRUE,  install |-> FALSE, start |-> TRUE,  validation |-> FALSE,
       stop |-> FALSE, home |-> TRUE,  malformed |-> "no"],
      [java |-> FALSE, install |-> TRUE,  start |-> FALSE, validation |-> FALSE,
       stop |-> FALSE, home |-> FALSE, malformed |-> "no"],
      [java |-> FALSE, install |-> FALSE, start |-> FALSE, validation |-> FALSE,
       stop |-> FALSE, home |-> FALSE, malformed |-> "pre_install"],
      [java |-> TRUE,  install |-> FALSE, start |-> FALSE, validation |-> FALSE,
       stop |-> FALSE, home |-> FALSE, malformed |-> "install"],
      [java |-> TRUE,  install |-> TRUE,  start |-> FALSE, validation |-> FALSE,
       stop |-> FALSE, home |-> FALSE, malformed |-> "post_install"] }

\* the statuses each stage tool's run can return
JavaStatuses == {"Success", "Failed"}
InstallStatuses == {"Success", "Failed"}
StartStatuses == {"Success", "Warning", "Failed"}
ValidationStatuses == {"Success", "Failed"}
StopStatuses == {"Success", "Warning", "Failed"}

\* _normalize_targets: the stripped, non-empty items
NormalizeTargets(targets) ==
    {Strip(targets[i]) : i \in 1..Len(targets)} \ {""}

\* _matches_target
MatchesTarget(server, targets) ==
    \E target \in targets :
        Lower(target) \in {Lower(Strip(server.name)), Lower(Strip(server.host))}

\* servers = [s for s in servers if self._matches_target(s, targets)]
FilterServers(servers, targets) ==
    LET Keep(s) == MatchesTarget(s, targets) IN SelectSeq(servers, Keep)

\* a gate that never returns early
StageGateOpen(status) == FALSE

\* if result.get("status") != "Success": return results
StageGate(status) == status /= "Success"

\* a status test that lets "Warning" pass
StatusFailsOnlyFailed(status) == status = "Failed"

\* if status and status not in {"Success", "Skipped"}: return False
StatusFails(status) == status /= "" /\ status \notin {"Success", "Skipped"}

\* _is_success_result
IsSuccessResult(res) ==
    \A k \in StageKeys : res.st[k] /= "absent" => ~StatusFails(res.st[k])

\* results[key] = {"status": status, ...}
SetStage(res, key, status) == [res EXCEPT !.st[key] = status]

\* an error dictionary that loses the server's name
ErrorResultUnknown(name) ==
    [server |-> "unknown",
     st |-> [k \in StageKeys |-> IF k = "error" THEN "Failed" ELSE "absent"]]

\* the dictionary the except block of RemoteWorkflowTool.run builds
ErrorResult(name) == SetStage(NoResults(name), "error", "Failed")

\* _failure
WorkflowFailure == [kind |-> "dict", status |-> "Failed", hasResults |-> FALSE,
                    results |-> <<>>]

\* effective_home is truthy
EffectiveHome == tomcat_home \/ settings.home

\* RemoteWorkflowTool.run up to the loop: load the configuration, filter the
\* servers by the targets
WorkflowCall ==
    /\ wpc = "idle"
    /\ apc \in {"idle", "workflow"}
    /\ \E cfg \in SettingsChoices, arg \in TargetInputs, loaded \in BOOLEAN :
        LET targets == NormalizeTargets(arg)
            servers == IF targets /= {} THEN FilterServers(Inventory, targets)
                       ELSE Inventory
        IN  /\ target_servers' = arg
            /\ IF ~loaded \/ (targets /= {} /\ servers = <<>>)
               THEN /\ wfReturn' = WorkflowFailure
                    /\ wpc' = "returned"
                    /\ UNCHANGED <<settings, selected, idx>>
               ELSE /\ settings' = cfg
                    /\ selected' = servers
                    /\ idx' = 1
                    /\ wpc' = "loop"
                    /\ UNCHANGED wfReturn
    /\ aggregated' = <<>>
    /\ overall_success' = TRUE
    /\ UNCHANGED <<results, tomcat_home, wexc, exState, closeCalls, stages, visited>>
    /\ UNCHANGED nonWfVars

\* the loop takes the next server and run_for_server creates its executor
ServerStart ==
    /\ wpc = "loop"
    /\ idx <= Len(selected)
    /\ results' = NoResults(selected[idx].name)
    /\ visited' = Append(visited, selected[idx].name)
    /\ stages' = <<>>
    /\ tomcat_home' = FALSE
    /\ wexc' = FALSE
    /\ exState' = "created"
    /\ closeCalls' = 0
    /\ wpc' = "connect"
    /\ UNCHANGED <<target_servers, settings, selected, idx, aggregated,
                   overall_success, wfReturn>>
    /\ UNCHANGED nonWfVars

\* executor.connect() returns or raises
RfsConnect ==
    /\ wpc = "connect"
    /\ \E connected \in BOOLEAN :
        IF connected
        THEN /\ exState' = "connected"
             /\ wpc' = "java"
             /\ UNCHANGED results
        ELSE /\ exState' = "failed"
             /\ results' = SetStage(results, "connection", "Failed")
             /\ wpc' = "finally"
    /\ UNCHANGED <<target_servers, settings, selected, idx, tomcat_home, wexc,
                   closeCalls, aggregated, overall_success, stages, visited,
                   wfReturn>>
    /\ UNCHANGED nonWfVars

\* the Java stage
RfsJava ==
    /\ wpc = "java"
    /\ IF settings.malformed = "pre_install"
       THEN /\ wexc' = TRUE
            /\ wpc' = "finally"
            /\ UNCHANGED <<results, stages>>
       ELSE IF ~settings.java
       THEN /\ wpc' = "install"
            /\ UNCHANGED <<results, stages, wexc>>
       ELSE \E status \in JavaStatuses :
            /\ stages' = Append(stages, "java")
            /\ results' = SetStage(results, "pre_install_java", status)
            /\ wpc' = IF StageGate(status) THEN "finally" ELSE "install"
            /\ UNCHANGED wexc
    /\ UNCHANGED <<target_servers, settings, selected, idx, tomcat_home, exState,
                   closeCalls, aggregated, overall_success, visited, wfReturn>>
    /\ UNCHANGED nonWfVars

\* the Tomcat install stage
RfsInstall ==
    /\ wpc = "install"
    /\ IF settings.malformed = "install"
       THEN /\ wexc' = TRUE
            /\ wpc' = "finally"
            /\ UNCHANGED <<results, stages, tomcat_home>>
       ELSE IF ~settings.install
       THEN /\ wpc' = "post"
            /\ UNCHANGED <<results, stages, wexc, tomcat_home>>
       ELSE \E status \in InstallStatuses :
            /\ stages' = Append(stages, "install")
            /\ results' = SetStage(results, "install_tomcat", status)
            /\ wpc' = IF StageGate(status) THEN "finally" ELSE "post"
            /\ tomcat_home' = ~StageGate(status)
            /\ UNCHANGED wexc
    /\ UNCHANGED <<target_servers, settings, selected, idx, exState, closeCalls,
                   aggregated, overall_success, visited, wfReturn>>
    /\ UNCHANGED nonWfVars

\* the post-install configuration is read
RfsPostConfig ==
    /\ wpc = "post"
    /\ IF settings.malformed = "post_install"
       THEN wexc' = TRUE /\ wpc' = "finally"
       ELSE wpc' = "start" /\ UNCHANGED wexc
    /\ UNCHANGED <<target_servers, settings, selected, idx, results, tomcat_home,
                   exState, closeCalls, aggregated, overall_success, stages,
                   visited, wfReturn>>
    /\ UNCHANGED nonWfVars

\* the Tomcat start stage
RfsStart ==
    /\ wpc = "start"
    /\ IF ~settings.start
       THEN UNCHANGED <<results, stages>>
       ELSE \E status \in StartStatuses :
            /\ stages' = Append(stages, "start")
            /\ results' = SetStage(results, "post_install_tomcat_start", status)
    /\ wpc' = "validation"
    /\ UNCHANGED <<target_servers, settings, selected, idx, tomcat_home, wexc,
                   exState, closeCalls, aggregated, overall_success, visited,
                   wfReturn>>
    /\ UNCHANGED nonWfVars

\* the Tomcat validation stage
RfsValidation ==
    /\ wpc = "validation"
    /\ IF ~settings.validation
       THEN UNCHANGED <<results, stages>>
       ELSE IF EffectiveHome
       THEN \E status \in ValidationStatuses :
            /\ stages' = Append(stages, "validation")
            /\ results' = SetStage(results, "post_install_tomcat_validation", status)
       ELSE /\ results' = SetStage(results, "post_install_tomcat_validation", "Skipped")
            /\ UNCHANGED stages
    /\ wpc' = "stop"
    /\ UNCHANGED <<target_servers, settings, selected, idx, tomcat_home, wexc,
                   exState, closeCalls, aggregated, overall_success, visited,
                   wfReturn>>
    /\ UNCHANGED nonWfVars

\* the Tomcat stop stage, then return results
RfsStop ==
    /\ wpc = "stop"
    /\ IF ~settings.stop
       THEN UNCHANGED <<results, stages>>
       ELSE \E status \in StopStatuses :
            /\ stages' = Append(stages, "stop")
            /\ results' = SetStage(results, "post_install_tomcat_stop", status)
    /\ wpc' = "finally"
    /\ UNCHANGED <<target_servers, settings, selected, idx, tomcat_home, wexc,
                   exState, closeCalls, aggregated, overall_success, visited,
                   wfReturn>>
    /\ UNCHANGED nonWfVars

\* the executor is closed only where it is connected
ExecutorConnected(ex) == ex = "connected"

\* if executor:
ExecutorSet(ex) == ex /= "none"

\* run_for_server's finally block closes the executor; the loop body of
\* RemoteWorkflowTool.run then records the result, or the error dictionary
\* when an exception came out of run_for_server
ServerDone ==
    /\ wpc = "finally"
    /\ \E closeRaises \in BOOLEAN :
        LET raised == wexc \/ closeRaises
            res == IF raised THEN ErrorResult(selected[idx].name) ELSE results
        IN  /\ wexc' = raised
            /\ aggregated' = Append(aggregated, res)
            /\ overall_success' = (overall_success /\ IsSuccessResult(res))
    /\ closeCalls' = IF ExecutorSet(exState) THEN closeCalls + 1 ELSE closeCalls
    /\ exState' = IF ExecutorSet(exState) THEN "closed" ELSE exState
    /\ idx' = idx + 1
    /\ wpc' = "loop"
    /\ UNCHANGED <<target_servers, settings, selected, results, tomcat_home,
                   stages, visited, wfReturn>>
    /\ UNCHANGED nonWfVars

\* after the loop: the summary dictionary
WorkflowReturn ==
    /\ wpc = "loop"
    /\ idx > Len(selected)
    /\ wfReturn' = [kind |-> "dict",
                    status |-> IF overall_success THEN "Success" ELSE "Failed",
                    hasResults |-> TRUE,
                    results |-> aggregated]
    /\ wpc' = "returned"
    /\ UNCHANGED <<target_servers, settings, selected, idx, results, tomcat_home,
                   wexc, exState, closeCalls, aggregated, overall_success,
                   stages, visited>>
    /\ UNCHANGED nonWfVars

(***************************************************************************)
(* RemoteToolAdapter.run: one tool of the chatbot on one server            *)
(***************************************************************************)

\* the dictionaries the adapter builds itself
AdapterFailed(why) == [status |-> "Failed", details |-> why]

\* what stops the adapter before it creates an executor
EarlyOutcomes == {"servers file unreadable", "no server specified",
                  "server not found"}

\* what the body of the try block after connect() comes to
BodyOutcomes == {"settings raised", "tool raised", "Success", "Failed"}

\* run() up to the try block: the workflow tool is run without an executor of
\* the adapter's own; every other tool needs a server of the inventory, for
\* which the executor is created
AdapterCall ==
    /\ apc = "idle"
    /\ wpc = "idle"
    /\ \E is_workflow \in BOOLEAN, early \in EarlyOutcomes \cup {"none"} :
        IF is_workflow
        THEN /\ early = "none"
             /\ apc' = "workflow"
             /\ UNCHANGED <<aexec, aresult>>
        ELSE IF early /= "none"
             THEN /\ aresult' = AdapterFailed(early)
                  /\ apc' = "returned"
                  /\ UNCHANGED aexec
             ELSE /\ aexec' = "created"
                  /\ apc' = "connect"
                  /\ UNCHANGED aresult
    /\ UNCHANGED <<aconnects, acloses>>
    /\ UNCHANGED nonAdapterVars

\* executor.connect() returns or raises
AdapterConnect ==
    /\ apc = "connect"
    /\ aconnects' = aconnects + 1
    /\ \E connected \in BOOLEAN :
        IF connected
        THEN /\ aexec' = "connected"
             /\ apc' = "body"
             /\ UNCHANGED aresult
        ELSE /\ aexec' = "failed"
             /\ aresult' = AdapterFailed("connect raised")
             /\ apc' = "finally"
    /\ UNCHANGED acloses
    /\ UNCHANGED nonAdapterVars

\* load_yaml, _resolve_config and self.tool.run: an exception of any of them
\* is turned into a Failed dictionary, a returned dictionary is kept
AdapterBody ==
    /\ apc = "body"
    /\ \E outcome \in BodyOutcomes :
        aresult' = IF outcome \in {"settings raised", "tool raised"}
                   THEN AdapterFailed(outcome)
                   ELSE [status |-> outcome, details |-> "tool returned"]
    /\ apc' = "finally"
    /\ UNCHANGED <<aexec, aconnects, acloses>>
    /\ UNCHANGED nonAdapterVars

\* finally: executor.close(), whose exception is swallowed; the dictionary
\* is returned
AdapterFinally ==
    /\ apc = "finally"
    /\ acloses' = acloses + 1
    /\ aexec' = "closed"
    /\ apc' = "returned"
    /\ UNCHANGED <<aconnects, aresult>>
    /\ UNCHANGED nonAdapterVars

\* the workflow tool has returned its summary, which the adapter returns
AdapterWorkflowReturn ==
    /\ apc = "workflow"
    /\ wpc = "returned"
    /\ aresult' = [status |-> wfReturn.status, details |-> "workflow returned"]
    /\ apc' = "returned"
    /\ UNCHANGED <<aexec, aconnects, acloses>>
    /\ UNCHANGED nonAdapterVars

NextWorkflow ==
    \/ WorkflowCall
    \/ ServerStart
    \/ RfsConnect
    \/ RfsJava
    \/ RfsInstall
    \/ RfsPostConfig
    \/ RfsStart
    \/ RfsValidation
    \/ RfsStop
    \/ ServerDone
    \/ WorkflowReturn
    \/ AdapterCall
    \/ AdapterConnect
    \/ AdapterBody
    \/ AdapterFinally
    \/ AdapterWorkflowReturn

InitWorkflow ==
    /\ ExecIdle
    /\ clock = 0
    /\ ToolsIdle
    /\ WorkflowIdle
    /\ ChatIdle
    /\ LocalIdle
    /\ OthersIdle

SpecWorkflow == InitWorkflow /\ [][NextWorkflow]_vars

(***************************************************************************)
(* Text: a str is modelled as the sequence of its characters               *)
(***************************************************************************)

UpperCase == <<"A", "B", "C", "D", "E", "F", "G", "H", "I", "J", "K", "L", "M",
               "N", "O", "P", "Q", "R", "S", "T", "U", "V", "W", "X", "Y", "Z">>

LowerCase == <<"a", "b", "c", "d", "e", "f", "g", "h", "i", "j", "k", "l", "m",
               "n", "o", "p", "q", "r", "s", "t", "u", "v", "w", "x", "y", "z">>

Digits == <<"0", "1", "2", "3", "4", "5", "6", "7", "8", "9">>

UpperSet == {UpperCase[i] : i \in 1..Len(UpperCase)}

LowerSet == {LowerCase[i] : i \in 1..Len(LowerCase)}

DigitSet == {Digits[i] : i \in 1..Len(Digits)}

IsUpper(c) == c \in UpperSet

IsLower(c) == c \in LowerSet

\* \d
IsDigit(c) == c \in DigitSet

\* the lower-case letter of each upper-case letter
LowerOf == [c \in UpperSet |-> LowerCase[CHOOSE i \in 1..Len(UpperCase) : UpperCase[i] = c]]

\* the value of each digit
DigitValue == [c \in DigitSet |-> (CHOOSE i \in 1..Len(Digits) : Digits[i] = c) - 1]

\* \w
IsWordChar(c) == IsUpper(c) \/ IsLower(c) \/ IsDigit(c) \/ c = "_"

\* \s
IsSpace(c) == c \in {" ", "\t", "\n", "\r"}

\* [\s,;]
IsSeparator(c) == IsSpace(c) \/ c \in {",", ";"}

LowerChar(c) == IF IsUpper(c) THEN LowerOf[c] ELSE c

\* str.lower
LowerText(text) == [i \in 1..Len(text) |-> LowerChar(text[i])]

\* str.strip
StripText(text) ==
    LET kept == {i \in 1..Len(text) : ~IsSpace(text[i])}
    IN  IF kept = {} THEN <<>>
        ELSE SubSeq(text,
                    CHOOSE i \in kept : \A j \in kept : i <= j,
                    CHOOSE i \in kept : \A j \in kept : j <= i)

\* sub in text
Contains(text, sub) ==
    \E i \in 1..(Len(text) - Len(sub) + 1) : SubSeq(text, i, i + Len(sub) - 1) = sub

\* re.search(rf"\b{word}\b", text), for a word that starts and ends with \w
WordSearch(text, word) ==
    \E i \in 1..(Len(text) - Len(word) + 1) :
        /\ SubSeq(text, i, i + Len(word) - 1) = word
        /\ (i = 1 \/ ~IsWordChar(text[i - 1]))
        /\ (i + Len(word) - 1 = Len(text) \/ ~IsWordChar(text[i + Len(word)]))

\* re.fullmatch(r"[a-z0-9]+", token)
IsAlnumToken(token) ==
    /\ token /= <<>>
    /\ \A i \in 1..Len(token) : IsLower(token[i]) \/ IsDigit(token[i])

\* int(digits)
RECURSIVE IntOf(_)
IntOf(digits) ==
    IF digits = <<>> THEN 0
    ELSE IntOf(SubSeq(digits, 1, Len(digits) - 1)) * 10 + DigitValue[digits[Len(digits)]]

\* the last position of the run of flagged characters that starts at i
RunEnd(flags, i) ==
    CHOOSE e \in i..Len(flags) :
        /\ \A k \in i..e : flags[k]
        /\ (e = Len(flags) \/ ~flags[e + 1])

\* [int(m) for m in re.findall(r"\d+", text)], from position i on
RECURSIVE NumbersFrom(_, _)
NumbersFrom(text, i) ==
    IF i > Len(text) THEN <<>>
    ELSE IF ~IsDigit(text[i]) THEN NumbersFrom(text, i + 1)
    ELSE LET e == RunEnd([k \in 1..Len(text) |-> IsDigit(text[k])], i)
         IN  <<IntOf(SubSeq(text, i, e))>> \o NumbersFrom(text, e + 1)

IsTokenChar(c) == ~IsSeparator(c)

\* the maximal runs of non-separators, from position i on
RECURSIVE RunsFrom(_, _)
RunsFrom(text, i) ==
    IF i > Len(text) THEN <<>>
    ELSE IF IsSeparator(text[i]) THEN RunsFrom(text, i + 1)
    ELSE LET e == RunEnd([k \in 1..Len(text) |-> IsTokenChar(text[k])], i)
         IN  <<SubSeq(text, i, e)>> \o RunsFrom(text, e + 1)

\* re.split(r"[\s,;]+", text): a separator at either end yields an empty token
SplitTokens(text) ==
    IF text = <<>> THEN << <<>> >>
    ELSE (IF IsSeparator(text[1]) THEN << <<>> >> ELSE <<>>)
         \o RunsFrom(text, 1)
         \o (IF IsSeparator(text[Len(text)]) THEN << <<>> >> ELSE <<>>)

\* ALL_KEYWORDS
ALL_KEYWORDS == << <<"a", "l", "l">>,
                  <<"e", "v", "e", "r", "y">>,
                  <<"e", "n", "t", "i", "r", "e">>,
                  <<"b", "o", "t", "h">> >>

\* KEYWORD_TOOL_SEQUENCES
KEYWORD_TOOL_SEQUENCES == <<
    [keywords |-> << <<"d", "i", "s", "k">>,
                   <<"s", "t", "o", "r", "a", "g", "e">> >>,
     sequence |-> << "remote_disk_check" >>],
    [keywords |-> << <<"r", "a", "m">>,
                   <<"m", "e", "m", "o", "r", "y">> >>,
     sequence |-> << "remote_ram_check" >>],
    [keywords |-> << <<"p", "o", "r", "t">>,
                   <<"p", "o", "r", "t", "s">> >>,
     sequence |-> << "remote_port_check" >>],
    [keywords |-> << <<"p", "r", "e", "r", "e", "q">>,
                   <<"p", "r", "e", "r", "e", "q", "u", "i", "s", "i", "t", "e">>,
                   <<"p", "r", "e", "-", "r", "e", "q">> >>,
     sequence |-> << "remote_disk_check",
                   "remote_ram_check",
                   "remote_java_install",
                   "remote_port_check" >>],
    [keywords |-> << <<"j", "a", "v", "a">> >>,
     sequence |-> << "remote_java_install" >>],
    [keywords |-> << <<"u", "n", "i", "n", "s", "t", "a", "l", "l">>,
                   <<"r", "e", "m", "o", "v", "e">> >>,
     sequence |-> << "remote_tomcat_stop",
                   "remote_tomcat_uninstall" >>],
    [keywords |-> << <<"s", "t", "a", "r", "t">> >>,
     sequence |-> << "remote_tomcat_start" >>],
    [keywords |-> << <<"s", "t", "o", "p">>,
                   <<"s", "h", "u", "t", "d", "o", "w", "n">> >>,
     sequence |-> << "remote_tomcat_stop" >>],
    [keywords |-> << <<"v", "a", "l", "i", "d", "a", "t", "e">>,
                   <<"v", "a", "l", "i", "d", "a", "t", "i", "o", "n">>,
                   <<"h", "e", "a", "l", "t", "h">> >>,
     sequence |-> << "remote_tomcat_validation" >>],
    [keywords |-> << <<"w", "o", "r", "k", "f", "l", "o", "w">> >>,
     sequence |-> << "remote_workflow" >>],
    [keywords |-> << <<"i", "n", "s", "t", "a", "l", "l">>,
                   <<"s", "e", "t", "u", "p">>,
                   <<"d", "e", "p", "l", "o", "y">> >>,
     sequence |-> << "remote_disk_check",
                   "remote_ram_check",
                   "remote_java_install",
                   "remote_port_check",
                   "remote_tomcat_install",
                   "remote_tomcat_start",
                   "remote_tomcat_validation" >>] >>

(***************************************************************************)
(* RemoteWorkflowChatBot                                                   *)
(***************************************************************************)

MAX_HISTORY_MESSAGES == 12

MAX_SELECTION_ATTEMPTS == 3

\* number of servers of the largest inventory
MaxInventory == 2

\* the sections of servers.ini the inventories are made of
ChatServers == << [name |-> <<"a", "p", "p">>, host |-> <<"1", "0", ".", "0", ".", "0", ".", "2">>],
                  [name |-> <<"d", "b", "1">>, host |-> <<"1", "0", ".", "0", ".", "0", ".", "1">>],
                  [name |-> <<"W", "e", "b">>, host |-> <<"w", "e", "b", ".", "l", "o", "c", "a", "l">>] >>

\* what _load_servers can return
Inventories ==
    {SubSeq(ChatServers, 1, n) : n \in 0..Min(MaxInventory, Len(ChatServers))}

\* values of the argument user_input of chat
UserInputs == { <<" ", " ">>,
                <<"c", "h", "e", "c", "k", " ", "d", "i", "s", "k">>,
                <<"s", "t", "a", "r", "t", " ", "d", "b", "1">>,
                <<"s", "t", "o", "p", " ", "a", "l", "l">>,
                <<"2">>,
                <<"h", "e", "l", "l", "o">>,
                <<"a", "p", "p">>,
                <<"u", "n", "i", "n", "s", "t", "a", "l", "l">>,
                <<"a", "l", "l">> }

\* the names of the registered adapters
AdapterNames == {"remote_disk_check", "remote_ram_check", "remote_port_check",
                 "remote_java_install", "remote_tomcat_install",
                 "remote_tomcat_uninstall", "remote_tomcat_start",
                 "remote_tomcat_stop", "remote_tomcat_validation",
                 "remote_workflow", "list_servers"}

\* what the planner LLM can answer: it raises, it returns blank text, text that
\* is not JSON, JSON without a task list, or JSON with tasks
PlannerOutcomes ==
    { [kind |-> "raise"],
      [kind |-> "blank"],
      [kind |-> "text", text |-> <<"I", " ", "w", "i", "l", "l", " ", "s", "t", "a", "r", "t", " ", "i", "t">>],
      [kind |-> "json", tasks |-> <<>>, text |-> <<"{", "\"", "n", "o", "t", "e", "s", "\"", ":", " ", "\"", "n", "o", "t", "h", "i", "n", "g", "\"", "}">>],
      [kind |-> "json", text |-> <<>>,
       tasks |-> << [tool |-> "remote_ram_check", server |-> <<"D", "B", "1", ",", " ", "g", "h", "o", "s", "t">>,
                     target_servers |-> <<>>],
                    [tool |-> "no_such_tool", server |-> <<"a", "l", "l">>,
                     target_servers |-> <<>>],
                    [tool |-> "remote_workflow", server |-> <<>>,
                     target_servers |-> << <<"d", "b", "1">> >>] >>] }

\* _server_identifier
ServerIdentifier(server) ==
    LET name == StripText(server.name)
        host == StripText(server.host)
    IN  IF name /= <<>> THEN name ELSE IF host /= <<>> THEN host ELSE <<"u", "n", "k", "n", "o", "w", "n">>

\* _server_identifiers
ServerIdentifiers(server) ==
    LET name == LowerText(StripText(server.name))
        host == LowerText(StripText(server.host))
    IN  (IF name /= <<>> THEN <<name>> ELSE <<>>)
        \o (IF host /= <<>> /\ host /= name THEN <<host>> ELSE <<>>)

\* a test that never finds one of the words
MentionsAllNever(text) == FALSE

\* _mentions_all
MentionsAll(text) ==
    \E k \in 1..Len(ALL_KEYWORDS) : WordSearch(text, ALL_KEYWORDS[k])

\* _dedupe_servers: the first server of each identifier
DedupeServers(servers) ==
    LET First(i) == \A j \in 1..(i - 1) :
                        ServerIdentifier(servers[j]) /= ServerIdentifier(servers[i])
        kept == {i \in 1..Len(servers) : First(i)}
        Nth(n) == CHOOSE i \in kept : Cardinality({j \in kept : j < i}) = n - 1
    IN  [n \in 1..Cardinality(kept) |-> servers[Nth(n)]]

\* any(identifier and identifier in normalized for identifier in identifiers)
MentionedIn(server, normalized) ==
    \E k \in 1..Len(ServerIdentifiers(server)) :
        Contains(normalized, ServerIdentifiers(server)[k])

\* _detect_servers_in_text
DetectServersInText(text, servers) ==
    LET normalized == LowerText(text)
        Mentioned(s) == MentionedIn(s, normalized)
    IN  IF MentionsAll(normalized) THEN servers
        ELSE DedupeServers(SelectSeq(servers, Mentioned))

\* the servers picked by the numbers of the reply
RECURSIVE ByNumber(_, _)
ByNumber(numbers, servers) ==
    IF numbers = <<>> THEN <<>>
    ELSE (IF 0 <= Head(numbers) - 1 /\ Head(numbers) - 1 < Len(servers)
          THEN <<servers[Head(numbers)]>> ELSE <<>>)
         \o ByNumber(Tail(numbers), servers)

\* the servers picked by the tokens of the reply: for each token the first
\* server one of whose identifiers equals it
RECURSIVE ByToken(_, _)
ByToken(tokens, servers) ==
    IF tokens = <<>> THEN <<>>
    ELSE LET Named(s) == \E k \in 1..Len(ServerIdentifiers(s)) :
                             ServerIdentifiers(s)[k] = Head(tokens)
             hits == SelectSeq(servers, Named)
         IN  (IF hits /= <<>> THEN <<Head(hits)>> ELSE <<>>)
             \o ByToken(Tail(tokens), servers)

\* _parse_server_selection
ParseServerSelection(text, servers) ==
    LET normalized == LowerText(StripText(text))
        matches == ByNumber(NumbersFrom(normalized, 1), servers)
                   \o ByToken(SplitTokens(normalized), servers)
        Mentioned(s) == MentionedIn(s, normalized)
    IN  IF servers = <<>> \/ normalized = <<>> THEN <<>>
        ELSE IF MentionsAll(normalized) THEN servers
        ELSE IF matches /= <<>> THEN DedupeServers(matches)
        ELSE DedupeServers(SelectSeq(servers, Mentioned))

\* _match_active_servers
MatchActiveServers(servers) ==
    IF active_servers.none \/ active_servers.value = <<>> THEN <<>>
    ELSE LET Active(s) == \E k \in 1..Len(active_servers.value) :
                 ServerIdentifier(active_servers.value[k]) = ServerIdentifier(s)
         IN  SelectSeq(servers, Active)

\* a match of the keyword anywhere in the text, inside words too
KeywordMatchesSubstring(text, keyword) ==
    Contains(text, LowerText(StripText(keyword)))

\* _keyword_matches
KeywordMatches(text, keyword) ==
    LET token == LowerText(StripText(keyword))
    IN  IF token = <<>> THEN FALSE
        ELSE IF IsAlnumToken(token) THEN WordSearch(text, token)
        ELSE Contains(text, token)

\* append_tool for each tool of a sequence
RECURSIVE AppendTools(_, _)
AppendTools(matched, sequence) ==
    IF sequence = <<>> THEN matched
    ELSE AppendTools(IF \E k \in 1..Len(matched) : matched[k] = Head(sequence)
                     THEN matched ELSE Append(matched, Head(sequence)),
                     Tail(sequence))

\* the loop of _keyword_plan over KEYWORD_TOOL_SEQUENCES, from group g on
RECURSIVE MatchedTools(_, _, _)
MatchedTools(normalized, g, matched) ==
    IF g > Len(KEYWORD_TOOL_SEQUENCES) THEN matched
    ELSE LET group == KEYWORD_TOOL_SEQUENCES[g]
             hit == \E k \in 1..Len(group.keywords) :
                        KeywordMatches(normalized, group.keywords[k])
         IN  MatchedTools(normalized, g + 1,
                          IF hit THEN AppendTools(matched, group.sequence)
                          ELSE matched)

\* {"tool": tool_name, "server": "all", "params": {}}
AllTask(tool_name) ==
    [tool |-> tool_name, server |-> <<"a", "l", "l">>, target_servers |-> <<>>]

\* _keyword_plan: the tasks of the plan, <<>> for None
KeywordPlan(request) ==
    LET matched == MatchedTools(LowerText(request), 1, <<>>)
    IN  [k \in 1..Len(matched) |-> AllTask(matched[k])]

IsNotComma(c) == c /= ","

\* [token.strip() for token in text.split(",") if token.strip()], from i on
RECURSIVE CommaTokens(_, _)
CommaTokens(text, i) ==
    IF i > Len(text) THEN <<>>
    ELSE IF text[i] = "," THEN CommaTokens(text, i + 1)
    ELSE LET e == RunEnd([k \in 1..Len(text) |-> IsNotComma(text[k])], i)
             token == StripText(SubSeq(text, i, e))
         IN  (IF token /= <<>> THEN <<token>> ELSE <<>>) \o CommaTokens(text, e + 1)

\* for each token the first identifier that equals it, case ignored
RECURSIVE TargetsOf(_, _)
TargetsOf(tokens, identifiers) ==
    IF tokens = <<>> THEN <<>>
    ELSE LET Same(id) == LowerText(id) = LowerText(Head(tokens))
             hits == SelectSeq(identifiers, Same)
         IN  (IF hits /= <<>> THEN <<Head(hits)>> ELSE <<>>)
             \o TargetsOf(Tail(tokens), identifiers)

\* _resolve_task_targets; <<>> is a descriptor that is None or empty
ResolveTaskTargets(target_descriptor, identifiers) ==
    IF target_descriptor = <<>> THEN identifiers
    ELSE IF LowerText(StripText(target_descriptor)) \in {<<"a", "l", "l">>, <<"*">>}
    THEN identifiers
    ELSE LET targets == TargetsOf(CommaTokens(target_descriptor, 1), identifiers)
         IN  IF targets /= <<>> THEN targets ELSE identifiers

\* list(selection_map.keys()): the identifiers of the selection, each once
SelectionIdentifiers(selection) ==
    LET unique == DedupeServers(selection)
    IN  [k \in 1..Len(unique) |-> ServerIdentifier(unique[k])]

\* the servers of the inventory that an adapter's run works on: the workflow
\* tool on those that match its targets, the inventory tool on none, any
\* other tool on the server _select_server finds
RanOn(tool_name, identifier, param_targets) ==
    LET targets == IF param_targets /= <<>> THEN param_targets ELSE <<identifier>>
        Wanted(s) == \E k \in 1..Len(targets) :
                         LowerText(StripText(targets[k])) \in
                             {LowerText(StripText(s.name)), LowerText(StripText(s.host))}
        hits == SelectSeq(inventory, Wanted)
        Found(s) == LowerText(StripText(identifier)) \in
                        {LowerText(StripText(s.name)), LowerText(StripText(s.host))}
        found == SelectSeq(inventory, Found)
    IN  IF tool_name = "list_servers" THEN {}
        ELSE IF tool_name = "remote_workflow"
        THEN {ServerIdentifier(hits[k]) : k \in 1..Len(hits)}
        ELSE IF found /= <<>> THEN {ServerIdentifier(Head(found))} ELSE {}

\* the calls of adapter.run that the loop of _execute_plan makes, in order
RECURSIVE ExecutePlan(_, _)
ExecutePlan(tasks, identifiers) ==
    IF tasks = <<>> THEN <<>>
    ELSE LET entry == Head(tasks)
             targets == ResolveTaskTargets(entry.server, identifiers)
         IN  (IF entry.tool \in AdapterNames
              THEN [k \in 1..Len(targets) |->
                       [tool |-> entry.tool, server |-> targets[k],
                        on |-> RanOn(entry.tool, targets[k], entry.target_servers)]]
              ELSE <<>>)
             \o ExecutePlan(Tail(tasks), identifiers)

\* _append_history: the length after the append and the truncation
AppendHistory(h, role) ==
    IF h + 1 > MAX_HISTORY_MESSAGES THEN MAX_HISTORY_MESSAGES ELSE h + 1

\* the texts chat can be given, stripped
RequestTexts == {StripText(input) : input \in UserInputs} \ {<<>>}

\* the texts _keyword_plan can be given
PlanTexts ==
    RequestTexts \cup {llm.text : llm \in {o \in PlannerOutcomes : o.kind \in {"text", "json"}}}

\* _keyword_plan, evaluated once for each text
KeywordPlanOf == [text \in PlanTexts |-> KeywordPlan(text)]

\* _detect_servers_in_text, evaluated once for each text and inventory
DetectOf ==
    [text \in RequestTexts |->
        [servers \in Inventories |-> DetectServersInText(text, servers)]]

\* _parse_server_selection, evaluated once for each text and inventory
ParseOf ==
    [text \in RequestTexts |->
        [servers \in Inventories |-> ParseServerSelection(text, servers)]]

\* _default_plan
DefaultPlan(request) ==
    IF KeywordPlanOf[request] /= <<>> THEN KeywordPlanOf[request]
    ELSE <<AllTask("remote_workflow")>>

\* the tasks _execute_plan gets from what _generate_plan returned
PlanTasks(request, llm) ==
    IF KeywordPlanOf[request] /= <<>> THEN KeywordPlanOf[request]
    ELSE IF llm.kind = "blank" THEN DefaultPlan(request)
    ELSE IF llm.kind = "json" /\ llm.tasks /= <<>> THEN llm.tasks
    ELSE DefaultPlan(llm.text)

\* a test that gives up one reply later
AttemptsExhaustedLate(attempts) == attempts > MAX_SELECTION_ATTEMPTS

\* if self.selection_attempts >= MAX_SELECTION_ATTEMPTS
AttemptsExhausted(attempts) == attempts >= MAX_SELECTION_ATTEMPTS

\* a test that also takes the first of several servers
SingleServerOrMore(servers) == Len(servers) >= 1

\* if len(servers) == 1
SingleServer(servers) == Len(servers) = 1

\* self.presented_servers or servers
Presented(servers) ==
    IF presented_servers.none \/ presented_servers.value = <<>> THEN servers
    ELSE presented_servers.value

\* the reply itself, whatever request is pending
OriginalRequestIsReply(user_text) == user_text

\* self.pending_request or user_text
OriginalRequest(user_text) ==
    IF pending_request.none \/ pending_request.value = <<>> THEN user_text
    ELSE pending_request.value

\* the selection chat makes for a request when no choice is awaited; <<>> when
\* the user has to be asked
RequestSelection(user_text, servers) ==
    LET detected == DetectOf[user_text][servers]
        active == MatchActiveServers(servers)
    IN  IF detected /= <<>> THEN detected
        ELSE IF active /= <<>> THEN active
        ELSE IF SingleServer(servers) THEN <<servers[1]>>
        ELSE <<>>

\* a reset that keeps the count of attempts
ResetKeepsAttempts(selection) ==
    /\ active_servers' = IF selection /= <<>> THEN Some(selection) ELSE active_servers
    /\ awaiting_server_choice' = FALSE
    /\ pending_request' = None
    /\ presented_servers' = None
    /\ UNCHANGED selection_attempts

\* _reset_selection_state
ResetSelectionState(selection) ==
    /\ active_servers' = IF selection /= <<>> THEN Some(selection) ELSE active_servers
    /\ awaiting_server_choice' = FALSE
    /\ pending_request' = None
    /\ presented_servers' = None
    /\ selection_attempts' = 0

\* _ask_for_selection and the append of its prompt: the LLM answers or raises
AskForSelection(h) ==
    \E answered \in BOOLEAN :
        IF answered
        THEN reply' = "prompt" /\ history' = AppendHistory(h, "ai")
        ELSE reply' = "raised" /\ history' = h

\* what _generate_plan gets from the planner LLM, which it asks only when
\* no keyword matches
PlannerCalls(request) ==
    IF KeywordPlanOf[request] /= <<>> THEN {[kind |-> "unasked"]}
    ELSE PlannerOutcomes

\* _plan_and_execute and what chat does with its response: the planner LLM is
\* asked when no keyword matches, the tools of the plan run, the summary LLM
\* answers or raises
PlanAndExecute(request, selection, h) ==
    \E llm \in PlannerCalls(request), summarized \in BOOLEAN :
        LET plannerRaises == KeywordPlanOf[request] = <<>> /\ llm.kind = "raise"
        IN  /\ planned' = Some([request |-> request, selection |-> selection])
            /\ executed' = IF plannerRaises THEN <<>>
                           ELSE ExecutePlan(PlanTasks(request, llm),
                                            SelectionIdentifiers(selection))
            /\ IF plannerRaises \/ ~summarized
               THEN /\ reply' = "raised"
                    /\ history' = h
                    /\ UNCHANGED <<awaiting_server_choice, pending_request,
                                   presented_servers, selection_attempts,
                                   active_servers>>
               ELSE /\ reply' = "response"
                    /\ history' = AppendHistory(h, "ai")
                    /\ ResetSelectionState(selection)

\* chat with an empty or blank input
ChatEmpty ==
    /\ \E input \in UserInputs :
        /\ StripText(input) = <<>>
        /\ user_input' = input
    /\ reply' = "empty"
    /\ executed' = <<>>
    /\ planned' = None
    /\ UNCHANGED <<inventory, awaiting_server_choice, pending_request,
                   presented_servers, selection_attempts, active_servers, history>>
    /\ UNCHANGED nonChatVars

\* chat when the inventory is empty
ChatNoServers ==
    /\ inventory = <<>>
    /\ \E input \in UserInputs :
        /\ StripText(input) /= <<>>
        /\ user_input' = input
    /\ history' = AppendHistory(AppendHistory(history, "human"), "ai")
    /\ reply' = "noservers"
    /\ executed' = <<>>
    /\ planned' = None
    /\ UNCHANGED <<inventory, awaiting_server_choice, pending_request,
                   presented_servers, selection_attempts, active_servers>>
    /\ UNCHANGED nonChatVars

\* chat while a choice is awaited, with a reply that selects servers
ChatSelect ==
    /\ inventory /= <<>>
    /\ awaiting_server_choice
    /\ \E input \in UserInputs :
        LET user_text == StripText(input)
            selection == ParseOf[user_text][Presented(inventory)]
        IN  /\ user_text /= <<>>
            /\ selection /= <<>>
            /\ user_input' = input
            /\ PlanAndExecute(OriginalRequest(user_text), selection,
                              AppendHistory(history, "human"))
    /\ UNCHANGED inventory
    /\ UNCHANGED nonChatVars

\* chat while a choice is awaited, with a reply that selects nothing:
\* _handle_selection_retry
ChatRetry ==
    /\ inventory /= <<>>
    /\ awaiting_server_choice
    /\ \E input \in UserInputs :
        LET user_text == StripText(input)
        IN  /\ user_text /= <<>>
            /\ ParseOf[user_text][Presented(inventory)] = <<>>
            /\ user_input' = input
    /\ IF AttemptsExhausted(selection_attempts + 1)
       THEN /\ ResetSelectionState(<<>>)
            /\ history' = AppendHistory(AppendHistory(history, "human"), "ai")
            /\ reply' = "giveup"
       ELSE /\ selection_attempts' = selection_attempts + 1
            /\ AskForSelection(AppendHistory(history, "human"))
            /\ UNCHANGED <<awaiting_server_choice, pending_request,
                           presented_servers, active_servers>>
    /\ executed' = <<>>
    /\ planned' = None
    /\ UNCHANGED inventory
    /\ UNCHANGED nonChatVars

\* chat with a request for which the user has to choose the servers
ChatAsk ==
    /\ inventory /= <<>>
    /\ ~awaiting_server_choice
    /\ \E input \in UserInputs :
        LET user_text == StripText(input)
        IN  /\ user_text /= <<>>
            /\ RequestSelection(user_text, inventory) = <<>>
            /\ user_input' = input
            /\ pending_request' = Some(user_text)
    /\ awaiting_server_choice' = TRUE
    /\ presented_servers' = Some(inventory)
    /\ selection_attempts' = 0
    /\ AskForSelection(AppendHistory(history, "human"))
    /\ executed' = <<>>
    /\ planned' = None
    /\ UNCHANGED <<inventory, active_servers>>
    /\ UNCHANGED nonChatVars

\* chat with a request whose servers are known
ChatRun ==
    /\ inventory /= <<>>
    /\ ~awaiting_server_choice
    /\ \E input \in UserInputs :
        LET user_text == StripText(input)
            selection == RequestSelection(user_text, inventory)
        IN  /\ user_text /= <<>>
            /\ selection /= <<>>
            /\ user_input' = input
            /\ PlanAndExecute(user_text, selection, AppendHistory(history, "human"))
    /\ UNCHANGED inventory
    /\ UNCHANGED nonChatVars

NextChat ==
    \/ ChatEmpty
    \/ ChatNoServers
    \/ ChatSelect
    \/ ChatRetry
    \/ ChatAsk
    \/ ChatRun

InitChat ==
    /\ ExecIdle
    /\ clock = 0
    /\ ToolsIdle
    /\ WorkflowIdle
    /\ inventory \in Inventories
    /\ ChatConstructed
    /\ LocalIdle
    /\ OthersIdle

SpecChat == InitChat /\ [][NextChat]_vars

(***************************************************************************)
(* The local Tomcat tools: InstallTomcat, UninstallTomcat, StartTomcat,    *)
(* StopTomcat and PostInstallTomcat, on a machine with two installation    *)
(* directories.  Under each directory the model keeps which of the paths   *)
(* the tools test exist, and whether a Tomcat started from there is alive. *)
(***************************************************************************)

\* check_existing_installation / check_installation: expected_dir, its bin
\* directory and the startup script exist
NeverExisting(tree) == FALSE

CheckExistingInstallation(tree) ==
    "home" \in tree /\ "bin" \in tree /\ "startup" \in tree

\* StartTomcat.check_tomcat_installed
StartInstalledAlways(tree) == TRUE

StartInstalled(tree) ==
    "home" \in tree /\ "bin" \in tree /\ "startup" \in tree

\* StopTomcat.check_tomcat_installed
StopInstalled(tree) ==
    "home" \in tree /\ "bin" \in tree /\ "shutdown" \in tree

\* the subprocesses configure_environment_variables launches
EnvEffects == IF os_name = "nt" THEN {"powershell"} ELSE {}

\* StartTomcat.run on the home under install_path p: what it returns, what it
\* launched, and the tree and the process afterwards
StartOutcomes(p) ==
    IF ~StartInstalled(files[p])
    THEN {[status |-> "Failed", details |-> "Tomcat is not installed",
           effects |-> {}, tree |-> files[p], up |-> running[p]]}
    ELSE {[status |-> "Failed", details |-> "Failed to start Tomcat",
           effects |-> EnvEffects, tree |-> files[p], up |-> running[p]]}
         \cup
         {[status |-> "Success",
           details |-> "Tomcat startup initiated successfully on port 8080",
           effects |-> EnvEffects \cup {"popen"},
           tree |-> IF pid THEN files[p] \cup {"pid"} ELSE files[p],
           up |-> up] :
             up \in {TRUE, running[p]},
             pid \in {w \in BOOLEAN : w => (os_name = "posix" /\ ~running[p])}}

\* StopTomcat.check_if_running: any java.exe on Windows, the pid file elsewhere
CheckIfRunning(p) ==
    IF os_name = "nt"
    THEN IF \E q \in InstallPaths : running[q] THEN {TRUE} ELSE BOOLEAN
    ELSE {"pid" \in files[p]}

\* StopTomcat.run on the home under install_path p
StopOutcomes(p) ==
    IF ~StopInstalled(files[p])
    THEN {[status |-> "Failed", details |-> "Tomcat is not installed",
           effects |-> {}, tree |-> files[p], up |-> running[p]]}
    ELSE LET checked == IF os_name = "nt" THEN {"tasklist"} ELSE {}
         IN  UNION {
               IF ~is_running
               THEN {[status |-> "Not Running",
                      details |-> "Tomcat is not currently running",
                      effects |-> checked, tree |-> files[p], up |-> running[p]]}
               ELSE {[status |-> "Failed",
                      details |-> "Failed to stop Tomcat",
                      effects |-> checked, tree |-> files[p], up |-> running[p]]}
                    \cup
                    {[status |-> IF timed_out THEN "Failed" ELSE "Success",
                      details |-> IF timed_out THEN "Tomcat shutdown timed out"
                                  ELSE "Tomcat shutdown completed successfully",
                      effects |-> checked \cup {"shutdown"},
                      tree |-> IF up THEN files[p] ELSE files[p] \ {"pid"},
                      up |-> up] :
                        timed_out \in BOOLEAN, up \in {FALSE, running[p]}}
               : is_running \in CheckIfRunning(p)}

\* what each prerequisite check can come to: CheckDisk's "space available" is
\* "Yes" or "No", or its except block returns a dictionary without details;
\* CheckJava returns a status or raises; CheckPorts fails off Windows
DiskResults == {"Yes", "No", "no details"}

JavaResults == {"Success", "Failed", "raises"}

PortResults == IF os_name = "nt" THEN {"Success", "Failed"} ELSE {"Failed"}

RamResults == {"Success", "Failed"}

\* run_prerequisite_checks with these results of the four checks: the checks
\* that ran, those that did not pass, and whether the method returned or an
\* exception left it (disk_result['details'] of a dictionary without details,
\* CheckJava.run raising)
CheckRun(disk, java, ports, ram) ==
    LET disk_failed == IF disk /= "Yes" THEN {"disk"} ELSE {}
    IN  IF disk = "no details"
        THEN [returned |-> FALSE, ran |-> {"disk"}, failed |-> disk_failed]
        ELSE IF java = "raises"
        THEN [returned |-> FALSE, ran |-> {"disk", "java"},
              failed |-> disk_failed \cup {"java"}]
        ELSE [returned |-> TRUE, ran |-> {"disk", "java", "ports", "ram"},
              failed |-> disk_failed
                         \cup (IF java /= "Success" THEN {"java"} ELSE {})
                         \cup (IF ports /= "Success" THEN {"ports"} ELSE {})
                         \cup (IF ram /= "Success" THEN {"ram"} ELSE {})]

PrerequisiteChecks ==
    {CheckRun(disk, java, ports, ram) :
        disk \in DiskResults, java \in JavaResults,
        ports \in PortResults, ram \in RamResults}

\* run lines 267-280 once the checks have passed: the step that raises, if
\* one does, and the tree it leaves
InstallSteps(tree) ==
    {[raised |-> "makedirs", effects |-> {"makedirs"}, tree |-> tree],
     [raised |-> "download", effects |-> {"makedirs", "download"},
      tree |-> tree \cup {"dir"}],
     [raised |-> "extract", effects |-> {"makedirs", "download", "extract"},
      tree |-> tree \cup {"dir", "home", "bin", "startup"}],
     [raised |-> "remove",
      effects |-> {"makedirs", "download", "extract", "configure"},
      tree |-> tree \cup {"dir"} \cup Extracted],
     [raised |-> "none",
      effects |-> {"makedirs", "download", "extract", "configure", "remove"},
      tree |-> tree \cup {"dir"} \cup Extracted]}

\* InstallTomcat.run with this install_path
InstallOutcomes(p) ==
    LET base == [status |-> "Failed", details |-> "Installation failed",
                 home |-> <<>>, effects |-> {}, tree |-> files[p],
                 failed |-> {}, named |-> {}]
    IN  IF CheckExistingInstallation(files[p])
        THEN {[base EXCEPT !.status = "Already Exists",
                           !.details = "already installed",
                           !.home = Home(p)]}
        ELSE UNION {
               IF ~checks.returned
               THEN {[base EXCEPT !.effects = {"checks"},
                                  !.failed = checks.failed]}
               ELSE IF checks.failed /= {}
               THEN {[base EXCEPT !.details = "Failed prerequisite checks",
                                  !.effects = {"checks"},
                                  !.failed = checks.failed,
                                  !.named = checks.failed]}
               ELSE {[base EXCEPT
                        !.status = IF step.raised = "none" THEN "Success"
                                   ELSE "Failed",
                        !.details = IF step.raised = "none" THEN "installed to"
                                    ELSE "Installation failed",
                        !.home = IF step.raised = "none" THEN Home(p) ELSE <<>>,
                        !.effects = {"checks"} \cup step.effects,
                        !.tree = step.tree] : step \in InstallSteps(files[p])}
               : checks \in PrerequisiteChecks}

\* UninstallTomcat.is_tomcat_running: the pid file exists and the process it
\* names is alive (a stale pid may name some other process)
IsTomcatRunning(p) ==
    IF "pid" \notin files[p] THEN {FALSE}
    ELSE IF running[p] THEN {TRUE}
    ELSE BOOLEAN

\* UninstallTomcat.run with this install_path
UninstallOutcomes(p) ==
    IF ~CheckExistingInstallation(files[p])
    THEN {[status |-> "Not Found", details |-> "is not installed at",
           effects |-> {}, tree |-> files[p]]}
    ELSE UNION {
           IF is_running
           THEN {[status |-> "Failed",
                  details |-> "is running. Stop it before uninstalling.",
                  effects |-> {}, tree |-> files[p]]}
           ELSE {[status |-> "Success", details |-> "successfully uninstalled from",
                  effects |-> {"rmtree"}, tree |-> files[p] \ TreeOfHome],
                 [status |-> "Failed", details |-> "Uninstallation failed",
                  effects |-> {"rmtree"}, tree |-> files[p] \ {"shutdown"}]}
           : is_running \in IsTomcatRunning(p)}

\* the record of a call of one of the four tools about install_path p
Returned(tool_name, given, p, o) ==
    [NoCall EXCEPT !.tool = tool_name, !.given = given,
                   !.path = p, !.status = o.status, !.details = o.details,
                   !.effects = o.effects, !.before = files[p],
                   !.was_running = running[p]]

\* InstallTomcat.run
LocalInstall ==
    /\ ppc = "idle"
    /\ \E arg \in PathArgs :
        LET p == IF arg.given THEN arg.path ELSE INSTALL_DEFAULT_PATH
        IN  \E o \in InstallOutcomes(p) :
              /\ files' = [files EXCEPT ![p] = o.tree]
              /\ last' = [Returned("install_tomcat", arg.given, p, o)
                             EXCEPT !.home = o.home, !.failed = o.failed,
                                    !.named = o.named]
              /\ removed' = IF o.status = "Success"
                            THEN [removed EXCEPT ![p] = FALSE]
                            ELSE removed
    /\ UNCHANGED <<os_name, running, postVars>>
    /\ UNCHANGED nonLocalVars

\* UninstallTomcat.run
LocalUninstall ==
    /\ ppc = "idle"
    /\ \E arg \in PathArgs :
        LET p == IF arg.given THEN arg.path ELSE UNINSTALL_DEFAULT_PATH
        IN  \E o \in UninstallOutcomes(p) :
              /\ files' = [files EXCEPT ![p] = o.tree]
              /\ last' = Returned("uninstall_tomcat", arg.given, p, o)
              /\ removed' = IF o.status = "Success"
                            THEN [removed EXCEPT ![p] = TRUE]
                            ELSE removed
    /\ UNCHANGED <<os_name, running, postVars>>
    /\ UNCHANGED nonLocalVars

\* StartTomcat.run with the Tomcat home under one of the install paths
LocalStart ==
    /\ ppc = "idle"
    /\ \E p \in InstallPaths :
        \E o \in StartOutcomes(InstallPathOf(Home(p))) :
          /\ files' = [files EXCEPT ![p] = o.tree]
          /\ running' = [running EXCEPT ![p] = o.up]
          /\ last' = [Returned("start_tomcat", TRUE, p, o) EXCEPT !.home = Home(p)]
    /\ UNCHANGED <<os_name, removed, postVars>>
    /\ UNCHANGED nonLocalVars

\* StopTomcat.run with the Tomcat home under one of the install paths
LocalStop ==
    /\ ppc = "idle"
    /\ \E p \in InstallPaths :
        \E o \in StopOutcomes(InstallPathOf(Home(p))) :
          /\ files' = [files EXCEPT ![p] = o.tree]
          /\ running' = [running EXCEPT ![p] = o.up]
          /\ last' = [Returned("stop_tomcat", TRUE, p, o) EXCEPT !.home = Home(p)]
    /\ UNCHANGED <<os_name, removed, postVars>>
    /\ UNCHANGED nonLocalVars

\* a Tomcat that was started dies on its own
TomcatExits ==
    /\ \E p \in InstallPaths :
        /\ running[p]
        /\ running' = [running EXCEPT ![p] = FALSE]
    /\ UNCHANGED <<os_name, files, last, removed, postVars>>
    /\ UNCHANGED nonLocalVars

\* largest wait_seconds given to PostInstallTomcat.run
MaxPostWait == 2

\* requests.get(url, timeout=3) of _probe_http
PROBE_TIMEOUT == 3

\* time.sleep(2) of the probe loop
PROBE_SLEEP == 2

\* wait_seconds: a number, or a value max(wait_seconds, 1) rejects
PostWaits ==
    {[ok |-> FALSE]}
        \cup {[ok |-> TRUE, wait_seconds |-> w] : w \in {0, MaxPostWait}}

\* arguments of PostInstallTomcat.run
PostArgs ==
    {[path |-> p, attempt_start |-> a, attempt_stop |-> s, wait |-> w] :
        p \in InstallPaths, a \in BOOLEAN, s \in BOOLEAN, w \in PostWaits}

\* _check_installation
PostCheckInstallation(tree) == "home" \in tree /\ "bin" \in tree

\* the status after a successful probe and this stop
FinalStatusIgnoresStop(attempt_stop, stop_status) == "Success"

FinalStatus(attempt_stop, stop_status) ==
    IF attempt_stop /\ stop_status \notin {"Success", "Not Running"}
    THEN "Failed" ELSE "Success"

\* the record of a call of PostInstallTomcat.run that has returned
PostReturned(args, status, details, start_status, stop_status, stops, n, ok) ==
    [NoCall EXCEPT !.tool = "post_install_tomcat",
                   !.given = TRUE, !.path = args.path, !.home = Home(args.path),
                   !.status = status, !.details = details,
                   !.attempt_start = args.attempt_start,
                   !.attempt_stop = args.attempt_stop,
                   !.start_status = start_status, !.stop_status = stop_status,
                   !.stops = stops, !.probes = n, !.probe_ok = ok]

\* run returns: its locals are gone
PostDone ==
    /\ ppc' = "idle"
    /\ pargs' = NoArgs
    /\ ptime' = 0
    /\ pdeadline' = 0
    /\ pstart' = "none"
    /\ pprobes' = 0

\* what follows the start step: the deadline, or the exception of max()
PostAfterStart(args, start_status) ==
    IF ~args.wait.ok
    THEN /\ last' = PostReturned(args, "Failed", "Post-install validation failed",
                                 start_status, "none", 0, 0, FALSE)
         /\ PostDone
    ELSE /\ ppc' = "probe"
         /\ pargs' = args
         /\ ptime' = 0
         /\ pdeadline' = Max(args.wait.wait_seconds, 1)
         /\ pstart' = start_status
         /\ pprobes' = 0
         /\ last' = NoCall

\* PostInstallTomcat.run lines 87-115: the installation check, the start step
PostBegin ==
    /\ ppc = "idle"
    /\ \E args \in PostArgs :
        LET p == args.path
        IN  IF ~PostCheckInstallation(files[p])
            THEN /\ last' = PostReturned(args, "Failed",
                                         "Post-install validation failed",
                                         "none", "none", 0, 0, FALSE)
                 /\ PostDone
                 /\ UNCHANGED <<files, running>>
            ELSE IF args.attempt_start
            THEN \E s \in StartOutcomes(p) :
                    /\ files' = [files EXCEPT ![p] = s.tree]
                    /\ running' = [running EXCEPT ![p] = s.up]
                    /\ IF s.status /= "Success"
                       THEN /\ last' = PostReturned(args, "Failed",
                                                    "Tomcat startup failed",
                                                    s.status, "none", 0, 0, FALSE)
                            /\ PostDone
                       ELSE PostAfterStart(args, s.status)
            ELSE /\ PostAfterStart(args, "none")
                 /\ UNCHANGED <<files, running>>
    /\ UNCHANGED <<os_name, removed>>
    /\ UNCHANGED nonLocalVars

\* lines 134-190: the stop step, if any, and the dictionary run returns
PostFinish(ok, n) ==
    LET p == pargs.path
        details == IF ok THEN "Tomcat is accepting HTTP requests"
                   ELSE "Tomcat did not respond before timeout"
    IN  /\ IF pargs.attempt_stop
           THEN \E st \in StopOutcomes(p) :
                   /\ files' = [files EXCEPT ![p] = st.tree]
                   /\ running' = [running EXCEPT ![p] = st.up]
                   /\ last' = PostReturned(
                          pargs,
                          IF ok THEN FinalStatus(TRUE, st.status) ELSE "Failed",
                          IF ok /\ FinalStatus(TRUE, st.status) = "Failed"
                          THEN "Validation succeeded, but stopping Tomcat failed"
                          ELSE details,
                          pstart, st.status, 1, n, ok)
           ELSE /\ last' = PostReturned(
                          pargs,
                          IF ok THEN FinalStatus(FALSE, "none") ELSE "Failed",
                          details, pstart, "none", 0, n, ok)
                /\ UNCHANGED <<files, running>>
        /\ PostDone

\* lines 117-121: one turn of the probe loop, and what follows a response
PostProbe ==
    /\ ppc = "probe"
    /\ ptime < pdeadline
    /\ \E took \in {0, PROBE_TIMEOUT}, probe \in {"ok", "not ok", "raises"} :
        CASE probe = "ok" -> PostFinish(TRUE, pprobes + 1)
          [] probe = "not ok" ->
                /\ ptime' = ptime + took + PROBE_SLEEP
                /\ pprobes' = pprobes + 1
                /\ UNCHANGED <<ppc, pargs, pdeadline, pstart, files, running, last>>
          [] probe = "raises" ->
                /\ last' = PostReturned(pargs, "Failed",
                                        "Post-install validation failed",
                                        pstart, "none", 0, pprobes + 1, FALSE)
                /\ PostDone
                /\ UNCHANGED <<files, running>>
    /\ UNCHANGED <<os_name, removed>>
    /\ UNCHANGED nonLocalVars

\* lines 117, 123-190: the deadline has passed without a response
PostTimedOut ==
    /\ ppc = "probe"
    /\ ~(ptime < pdeadline)
    /\ PostFinish(FALSE, pprobes)
    /\ UNCHANGED <<os_name, removed>>
    /\ UNCHANGED nonLocalVars

NextLocal ==
    \/ LocalInstall
    \/ LocalUninstall
    \/ LocalStart
    \/ LocalStop
    \/ TomcatExits
    \/ PostBegin
    \/ PostProbe
    \/ PostTimedOut

InitLocal ==
    /\ ExecIdle
    /\ clock = 0
    /\ ToolsIdle
    /\ WorkflowIdle
    /\ ChatIdle
    /\ os_name \in {"nt", "posix"}
    /\ files \in [InstallPaths -> {{}, Installed}]
    /\ running = [p \in InstallPaths |-> FALSE]
    /\ last = NoCall
    /\ removed = [p \in InstallPaths |-> FALSE]
    /\ PostIdle
    /\ OthersIdle

SpecLocal == InitLocal /\ [][NextLocal]_vars

(***************************************************************************)
(* RemoteWorkflowChatBot._parse_server_selection on its own: a reply to    *)
(* the prompt that lists the presented servers                             *)
(***************************************************************************)

\* the lists a prompt can present: the servers of the inventory file in any
\* order, without repetition
PresentedLists ==
    LET Orders == UNION {[1..n -> 1..Len(ChatServers)] : n \in 1..Len(ChatServers)}
        Injective(f) == \A i, j \in DOMAIN f : f[i] = f[j] => i = j
    IN  {[i \in DOMAIN f |-> ChatServers[f[i]]] : f \in {g \in Orders : Injective(g)}}

\* the text of the option number k
OptionTexts == << <<"1">>, <<"2">>, <<"3">> >>

\* replies: a name or a host of the inventory, an option number, a number
\* that is no option, a name as the user may type it
SelectionReplies ==
    {ChatServers[i].name : i \in 1..Len(ChatServers)}
    \cup {ChatServers[i].host : i \in 1..Len(ChatServers)}
    \cup {OptionTexts[k] : k \in 1..Len(OptionTexts)}
    \cup { <<"0">>, <<"7">>, <<" ", "D", "B", "1", " ">>, <<"w", "e", "b">> }

\* self._parse_server_selection(user_text, self.presented_servers or servers)
ParseSelection ==
    /\ sel_result = None
    /\ sel_result' = Some(ParseServerSelection(sel_reply, sel_presented))
    /\ UNCHANGED <<sel_presented, sel_reply>>
    /\ UNCHANGED nonSelectionVars

NextSelection == ParseSelection

InitSelection ==
    /\ ExecIdle
    /\ clock = 0
    /\ ToolsIdle
    /\ WorkflowIdle
    /\ ChatIdle
    /\ LocalIdle
    /\ AdapterIdle
    /\ ComplexIdle
    /\ sel_presented \in PresentedLists
    /\ sel_reply \in SelectionReplies
    /\ sel_result = None

SpecSelection == InitSelection /\ [][NextSelection]_vars

(***************************************************************************)
(* ChatBot.execute_complex_workflow: the loop that asks the LLM for the    *)
(* next step and runs the tool the step names                              *)
(***************************************************************************)

\* max_steps = 10
max_steps == 10

\* the keys of self.tools
RegisteredTools == {"check_disk", "check_java"}

\* values of the key "tool" of a step
StepTools == RegisteredTools \cup {"none", "format_disk"}

\* values of the key "taskStatus" of a step
TaskStatuses == { <<>>,
                  <<"c", "o", "m", "p", "l", "e", "t", "e", "d">>,
                  <<"C", "o", "m", "p", "l", "e", "t", "e", "d">>,
                  <<"i", "n", "p", "r", "o", "g", "r", "e", "s", "s">>,
                  <<"I", "n", "P", "r", "o", "g", "r", "e", "s", "s">>,
                  <<"r", "u", "n", "n", "i", "n", "g">> }

\* what call_ollama_chat can answer to a step request: text that is no JSON
\* and holds no braces, JSON wrapped in other text, braces around what is no
\* JSON, JSON whose value is no object, a JSON object
StepAnswers ==
    {[kind |-> k] : k \in {"text", "wrapped", "braces", "notobject"}}
    \cup {[kind |-> "object", taskStatus |-> st, tool |-> t] :
              st \in TaskStatuses, t \in StepTools}

\* a loop that takes one step more
LoopContinuesLate(count) == count <= max_steps

\* while step_count < max_steps
LoopContinues(count) == count < max_steps

\* (not task_status) or (task_status.lower() == "completed") or (tool_name == "none")
WorkflowCompleted(answer) ==
    \/ answer.taskStatus = <<>>
    \/ LowerText(answer.taskStatus) = <<"c", "o", "m", "p", "l", "e", "t", "e", "d">>
    \/ answer.tool = "none"

\* task_status.lower() == "inprogress"
InProgress(answer) ==
    LowerText(answer.taskStatus) = <<"i", "n", "p", "r", "o", "g", "r", "e", "s", "s">>

\* execute_complex_workflow is called
ComplexCall ==
    /\ cpc = "idle"
    /\ cpc' = "loop"
    /\ step_count' = 0
    /\ UNCHANGED <<step_data, requests, invocations, summaries, creturn>>
    /\ UNCHANGED nonComplexVars

\* one iteration of the loop: the step request, the parse of its answer, and
\* what the answer leads to: the final summary, a tool run whose exception is
\* logged, the end of the loop, or the next iteration
ComplexStep ==
    /\ cpc = "loop"
    /\ LoopContinues(step_count)
    /\ step_count' = step_count + 1
    /\ requests' = requests + 1
    /\ \E answer \in StepAnswers :
        /\ step_data' = answer
        /\ IF answer.kind = "wrapped"
           THEN /\ cpc' = "loop"
                /\ UNCHANGED <<invocations, summaries, creturn>>
           ELSE IF answer.kind \in {"text", "braces"}
           THEN /\ cpc' = "returned"
                /\ creturn' = "attempted"
                /\ UNCHANGED <<invocations, summaries>>
           ELSE IF answer.kind = "notobject"
           THEN /\ cpc' = "raised"
                /\ UNCHANGED <<invocations, summaries, creturn>>
           ELSE IF WorkflowCompleted(answer)
           THEN /\ summaries' = summaries + 1
                /\ cpc' = "returned"
                /\ creturn' = "summary"
                /\ UNCHANGED invocations
           ELSE IF InProgress(answer) /\ answer.tool \in RegisteredTools
           THEN /\ invocations' = invocations + 1
                /\ cpc' = "loop"
                /\ UNCHANGED <<summaries, creturn>>
           ELSE IF InProgress(answer) /\ answer.tool \notin RegisteredTools
           THEN /\ cpc' = "returned"
                /\ creturn' = "attempted"
                /\ UNCHANGED <<invocations, summaries>>
           ELSE /\ cpc' = "loop"
                /\ UNCHANGED <<invocations, summaries, creturn>>
    /\ UNCHANGED nonComplexVars

\* the loop condition fails: the message about the maximum number of steps
ComplexExhausted ==
    /\ cpc = "loop"
    /\ ~LoopContinues(step_count)
    /\ cpc' = "returned"
    /\ creturn' = "attempted"
    /\ UNCHANGED <<step_count, step_data, requests, invocations, summaries>>
    /\ UNCHANGED nonComplexVars

NextComplex ==
    \/ ComplexCall
    \/ ComplexStep
    \/ ComplexExhausted

InitComplex ==
    /\ ExecIdle
    /\ clock = 0
    /\ ToolsIdle
    /\ WorkflowIdle
    /\ ChatIdle
    /\ LocalIdle
    /\ OthersIdle

SpecComplex == InitComplex /\ [][NextComplex]_vars

\* every LLM call and every tool call returns, so that the method takes its
\* next step
SpecComplexFair == SpecComplex /\ WF_vars(NextComplex)

(***************************************************************************)
(* Claims about RemoteExecutor.run                                         *)
(***************************************************************************)

\* C1: with a positive timeout, the poll that finds the exit status not ready
\* and more than timeout elapsed since the command was started raises
\* TimeoutError, and the call returns no (stdout, stderr) result.
C1_TimeoutEnforced ==
    [][(/\ pc = "poll"
        /\ pc' /= "poll"
        /\ timeout > 0
        /\ ~exitReady
        /\ clock - start_time > timeout)
       => (pc' = "raisedTimeout" /\ result' = NoReturn)]_vars

\* a call with a positive timeout has raised TimeoutError past its deadline
C1_Witness ==
    /\ pc = "raisedTimeout"
    /\ timeout > 0
    /\ ~exitReady
    /\ clock - start_time > timeout
    /\ result = NoReturn

\* C2: with a positive timeout every call of run terminates, whatever the remote
\* command does: it eventually returns or raises TimeoutError.
C2_RunTerminates ==
    (pc = "drainOut" /\ timeout > 0) ~> (pc \in {"returned", "raisedTimeout"})

\* C3 as stated: the returned stdout and the returned stderr are the in-order
\* concatenations of the bytes the channel made readable on each stream.
C3_BothStreamsVerbatim ==
    pc = "returned" =>
        /\ result.out = Decode(outMade)
        /\ result.err = Decode(errMade)

\* C3 as amended: stdout is the in-order concatenation of what the channel made
\* readable; so is stderr, except that a non-zero exit status with no stderr
\* captured returns "Command exited with status N" in its place.
C3_OutputVerbatimOrExitMessage ==
    pc = "returned" =>
        /\ result.out = Decode(outMade)
        /\ result.err = IF exit_status /= 0 /\ errMade = <<>>
                        THEN <<"Command exited with status", exit_status>>
                        ELSE Decode(errMade)

\* run has returned output that it read in several chunks on both streams
C3_Witness ==
    /\ pc = "returned"
    /\ Len(stdout_chunks) >= 2
    /\ Len(outMade) >= 2
    /\ errMade /= <<>>
    /\ result.out = Decode(outMade)

(***************************************************************************)
(* Claims about the tools' result dictionaries                             *)
(***************************************************************************)

\* C4: for every tool and every outcome of its run, the dictionary that run
\* returns contains the keys status, output and details.
C4_ResultHasStatusOutputDetails ==
    toolResult.kind = "dict" =>
        {"status", "output", "details"} \subseteq toolResult.keys

\* C5: every tool's run returns a dictionary instead of propagating an
\* exception, and when a command could not be launched or the executor raised,
\* the dictionary's status is "Failed".
C5_FailureIsReturnedNotRaised ==
    tpc = "done" =>
        /\ toolResult.kind = "dict"
        /\ texc => toolResult.status = "Failed"

(***************************************************************************)
(* Claims about the remote workflow                                        *)
(***************************************************************************)

\* the fixed order of the stages
StageOrder == <<"java", "install", "start", "validation", "stop">>

StageRank(stage) == CHOOSE i \in 1..Len(StageOrder) : StageOrder[i] = stage

\* C6: for each server, run_for_server invokes only configured stages, each at
\* most once and in the order java, install, start, validation, stop; install
\* is invoked only if the Java stage, when configured, returned "Success"; a
\* post-install stage is invoked only if the install stage, when configured,
\* returned "Success"; nothing is invoked when the connection failed.
C6_StagesInOrderAndGated ==
    /\ \A i, j \in 1..Len(stages) :
           i < j => StageRank(stages[i]) < StageRank(stages[j])
    /\ \A i \in 1..Len(stages) :
        /\ settings[stages[i]]
        /\ (stages[i] = "install" /\ settings.java)
               => results.st["pre_install_java"] = "Success"
        /\ (stages[i] \in {"start", "validation", "stop"} /\ settings.install)
               => results.st["install_tomcat"] = "Success"
    /\ results.st["connection"] = "Failed" => stages = <<>>

\* run_for_server has invoked all five stages for a server
C6_Witness ==
    /\ wpc = "finally"
    /\ stages = StageOrder
    /\ results.st["pre_install_java"] = "Success"
    /\ results.st["install_tomcat"] = "Success"

\* C7: when RemoteWorkflowTool.run returns its summary, run_for_server has been
\* called exactly once for each selected server of the inventory (every server
\* when no target is given, else those whose name or host is a target), in
\* inventory order, whatever failed or was raised on the way, and the results
\* list has one entry per selected server, in the same order.
C7_OneRunAndOneResultPerServer ==
    (wpc = "returned" /\ wfReturn.hasResults) =>
        LET tg == {Strip(target_servers[i]) : i \in 1..Len(target_servers)} \ {""}
            Chosen(s) == tg = {} \/ \E t \in tg : Lower(t) \in {Lower(s.name), Lower(s.host)}
            expected == SelectSeq(Inventory, Chosen)
            names == [i \in 1..Len(expected) |-> expected[i].name]
        IN  /\ visited = names
            /\ Len(wfReturn.results) = Len(names)
            /\ \A i \in 1..Len(names) : wfReturn.results[i].server = names[i]

\* the first server ended in an exception and the second one ran to its end
C7_Witness ==
    /\ wpc = "returned"
    /\ wfReturn.hasResults
    /\ Len(wfReturn.results) = 2
    /\ wfReturn.results[1].st["error"] = "Failed"
    /\ wfReturn.results[2].st["post_install_tomcat_stop"] = "Success"

\* every stage result recorded for every processed server is Success or Skipped
AllRecordedOk ==
    \A i \in 1..Len(wfReturn.results) : \A k \in StageKeys :
        wfReturn.results[i].st[k] \in {"absent", "Success", "Skipped"}

\* C8 as stated: the status RemoteWorkflowTool.run returns is "Success" if and
\* only if every stage result recorded for every processed server has status
\* Success or Skipped.
C8_SuccessIffAllStagesOk ==
    wpc = "returned" => (wfReturn.status = "Success" <=> AllRecordedOk)

\* C8 as amended: when the configuration was loaded and the targets, if any,
\* matched a server, the status is "Success" if and only if every recorded
\* stage result has status Success or Skipped; otherwise run returns "Failed"
\* without processing any server.
C8_SuccessIffAllStagesOkWhenRun ==
    wpc = "returned" =>
        IF wfReturn.hasResults
        THEN wfReturn.status = "Success" <=> AllRecordedOk
        ELSE wfReturn.status = "Failed" /\ visited = <<>>

\* a Warning, with no Failed stage on any server, made the overall status Failed
C8_Witness ==
    /\ wpc = "returned"
    /\ wfReturn.hasResults
    /\ wfReturn.status = "Failed"
    /\ \E i \in 1..Len(wfReturn.results) :
           wfReturn.results[i].st["post_install_tomcat_start"] = "Warning"
    /\ \A i \in 1..Len(wfReturn.results) : \A k \in StageKeys :
           wfReturn.results[i].st[k] /= "Failed"

(***************************************************************************)
(* Claims about RemoteWorkflowChatBot.chat                                 *)
(***************************************************************************)

C10_AskOnlyWhenSeveralServers ==
    [][/\ (/\ ~awaiting_server_choice
           /\ Len(inventory) >= 2
           /\ StripText(user_input') /= <<>>
           /\ active_servers = None
           /\ \A k \in 1..Len(inventory) :
                  /\ ~Contains(LowerText(user_input'), LowerText(inventory[k].name))
                  /\ ~Contains(LowerText(user_input'), LowerText(inventory[k].host))
           /\ \A k \in 1..Len(ALL_KEYWORDS) :
                  ~WordSearch(LowerText(user_input'), ALL_KEYWORDS[k]))
          => /\ awaiting_server_choice'
             /\ pending_request' = Some(StripText(user_input'))
             /\ selection_attempts' = 0
             /\ executed' = <<>>
             /\ planned' = None
       /\ Len(inventory) = 1
          => /\ ~awaiting_server_choice
             /\ ~awaiting_server_choice'
             /\ StripText(user_input') /= <<>>
                => /\ planned' = Some([request |-> StripText(user_input'),
                                        selection |-> <<inventory[1]>>])
                   /\ \A k \in 1..Len(executed') :
                          executed'[k].on \subseteq {inventory[1].name}
      ]_vars

\* the bot has asked which of several servers a request is for
C10_Witness ==
    /\ Len(inventory) >= 2
    /\ awaiting_server_choice
    /\ reply = "prompt"
    /\ pending_request = Some(StripText(user_input))
    /\ selection_attempts = 0
    /\ active_servers = None
    /\ executed = <<>>

\* the groups of KEYWORD_TOOL_SEQUENCES one of whose keywords occurs in the
\* request: as a whole word when the keyword is made of letters and digits,
\* anywhere otherwise
GroupsHit(request) ==
    {g \in 1..Len(KEYWORD_TOOL_SEQUENCES) :
        \E k \in 1..Len(KEYWORD_TOOL_SEQUENCES[g].keywords) :
            LET keyword == KEYWORD_TOOL_SEQUENCES[g].keywords[k]
            IN  IF IsAlnumToken(keyword)
                THEN WordSearch(LowerText(request), keyword)
                ELSE Contains(LowerText(request), keyword)}

\* C11: when the keywords that occur in the request that is planned all belong
\* to the groups disk/storage, ram/memory, port/ports, prereq/prerequisite/
\* pre-req (groups 1 to 4) or uninstall/remove (group 6), and at least one does,
\* no call of remote_tomcat_install, remote_tomcat_start or
\* remote_tomcat_validation is made for that request.
C11_ChecksAndUninstallNeverInstall ==
    (/\ ~planned.none
     /\ GroupsHit(planned.value.request) /= {}
     /\ GroupsHit(planned.value.request) \subseteq {1, 2, 3, 4, 6})
    => \A k \in 1..Len(executed) :
           executed[k].tool \notin {"remote_tomcat_install", "remote_tomcat_start",
                                    "remote_tomcat_validation"}

\* the request "uninstall" has been executed as a stop and an uninstall
C11_Witness ==
    /\ reply = "response"
    /\ ~planned.none
    /\ planned.value.request = <<"u", "n", "i", "n", "s", "t", "a", "l", "l">>
    /\ Len(executed) >= 2
    /\ executed[1].tool = "remote_tomcat_stop"
    /\ executed[2].tool = "remote_tomcat_uninstall"


\* the start tool's run has returned a dictionary
StartReturned ==
    /\ tool = "remote_tomcat_start"
    /\ tpc = "done"
    /\ toolResult.kind = "dict"

\* the readiness poll ran and did not report the port: it returned with a
\* non-blank standard error, or the poll command timed out
PollFailed ==
    /\ readyRun.ran
    /\ \/ readyRun.outcome = "timeout"
       \/ /\ readyRun.outcome = "returned"
          /\ Strip(readyRun.ready_error) /= ""

\* the readiness poll returned and its standard error is blank
PollBlank ==
    /\ readyRun.ran
    /\ readyRun.outcome = "returned"
    /\ Strip(readyRun.ready_error) = ""

\* C12 as stated: RemoteTomcatStartTool.run returns "Success" or "Warning"
\* only if the readiness poll completed with empty standard error and the port
\* listening; a port that is not listening, or a poll that timed out, gives
\* "Failed" with details "Timed out waiting for Tomcat port"; and the status is
\* "Warning" exactly when the port became listening and the start command
\* wrote a non-empty standard error.
C12_WarningIffStartWroteStderr ==
    StartReturned =>
        /\ toolResult.status \in {"Success", "Warning"} =>
              /\ startRun.ran /\ startRun.outcome = "returned"
              /\ readyRun.ran /\ readyRun.outcome = "returned"
              /\ readyRun.listening
              /\ readyRun.captured = ""
        /\ (/\ readyRun.ran
            /\ \/ readyRun.outcome = "timeout"
               \/ readyRun.outcome = "returned" /\ ~readyRun.listening) =>
              /\ toolResult.status = "Failed"
              /\ toolResult.details = "Timed out waiting for Tomcat port"
        /\ toolResult.status = "Warning" <=>
              /\ PollBlank
              /\ readyRun.listening
              /\ startRun.captured /= ""

\* C12, amended: "empty" is "blank once stripped", and the standard error that
\* decides is the one RemoteExecutor.run returned, which is the exit message
\* for a command that failed silently.  "Success" or "Warning" only if the
\* poll returned a blank standard error; a poll that timed out or returned a
\* non-blank standard error gives "Failed" with details "Timed out waiting for
\* Tomcat port"; "Warning" exactly when the poll returned a blank standard
\* error and the start command's returned standard error is not blank.
C12_WarningIffReturnedStderrNotBlank ==
    StartReturned =>
        /\ toolResult.status \in {"Success", "Warning"} =>
              /\ startRun.ran /\ startRun.outcome = "returned"
              /\ PollBlank
              /\ readyRun.listening
        /\ PollFailed =>
              /\ toolResult.status = "Failed"
              /\ toolResult.details = "Timed out waiting for Tomcat port"
        /\ toolResult.status = "Warning" <=>
              /\ PollBlank
              /\ Strip(startRun.stderr) /= ""

\* the start command failed without a word, the port came up, run says "Warning"
C12_Witness ==
    /\ StartReturned
    /\ toolResult.status = "Warning"
    /\ startRun.captured = ""
    /\ startRun.exit_status = 1
    /\ readyRun.listening
    /\ readyRun.ready_ok


\* the validation tool's run has returned
ValidationReturned ==
    /\ tool = "remote_tomcat_validation"
    /\ tpc = "done"
    /\ toolResult.kind = "dict"

\* the most recent response received has a status code in 200..499
LastResponseAnswers ==
    /\ responses /= <<>>
    /\ 200 =< responses[Len(responses)]
    /\ responses[Len(responses)] < 500

\* no response but the last one had a status code below 400
OnlyLastResponseOk ==
    \A i \in 1..(Len(responses) - 1) : responses[i] >= 400

\* polling went on until the deadline unless a response below 400 ended it
PolledUntilOkOrDeadline ==
    \/ responses /= <<>> /\ responses[Len(responses)] < 400
    \/ ~(vtime < deadline)

\* C13 as stated: RemoteTomcatValidationTool.run probes the endpoint at
\* least once, stops at the first response whose status code is below 400 and
\* otherwise polls until the deadline, and returns "Success" if and only if
\* the most recent response received has a status code in 200..499, "Failed"
\* otherwise.
C13_AlwaysProbesAndSuccessIffLastAnswers ==
    ValidationReturned =>
        /\ probes >= 1
        /\ OnlyLastResponseOk
        /\ PolledUntilOkOrDeadline
        /\ toolResult.status = "Success" <=> LastResponseAnswers
        /\ toolResult.status \in {"Success", "Failed"}

\* C13, amended: the same, for a run in which no exception reached run's
\* outer except block; a run in which one did (a configuration value that
\* int() or format() rejects, a probe raising something other than
\* RequestException) returns "Failed" at once, and never probes after a
\* response whose status code is below 400.
C13_ProbesAndSuccessIffLastAnswersUnlessRaised ==
    ValidationReturned =>
        /\ OnlyLastResponseOk
        /\ toolResult.status \in {"Success", "Failed"}
        /\ texc => toolResult.status = "Failed"
        /\ ~texc =>
              /\ probes >= 1
              /\ PolledUntilOkOrDeadline
              /\ toolResult.status = "Success" <=> LastResponseAnswers

\* a 500, then a 404 as the last response before the deadline: "Success"
C13_Witness ==
    /\ ValidationReturned
    /\ ~texc
    /\ responses = <<500, 404>>
    /\ ~(vtime < deadline)
    /\ toolResult.status = "Success"

\* wait_seconds <= 0: the deadline is one second away, and one probe is sent
C13_WitnessShortWait ==
    /\ ValidationReturned
    /\ ~texc
    /\ deadline = 1
    /\ probes = 1


\* the inputs that mention all, every, entire or both
InputsMentioningAll ==
    {input \in UserInputs :
        \E word \in {<<"a", "l", "l">>, <<"e", "v", "e", "r", "y">>,
                      <<"e", "n", "t", "i", "r", "e">>, <<"b", "o", "t", "h">>} :
            WordSearch(LowerText(StripText(input)), word)}

\* the inputs that are the reply "all"
InputsAll ==
    {input \in UserInputs : LowerText(StripText(input)) = <<"a", "l", "l">>}

\* chat is called with a request that mentions all, every, entire or both
\* while no selection is awaited
RequestMentionsAll ==
    /\ inventory /= <<>>
    /\ ~awaiting_server_choice
    /\ user_input' \in InputsMentioningAll

\* chat is called with the reply "all" while a selection is awaited
ReplyAll ==
    /\ inventory /= <<>>
    /\ awaiting_server_choice
    /\ user_input' \in InputsAll

\* the turn planned its request with every server of the inventory selected
PlannedOnInventory ==
    /\ ~planned'.none
    /\ planned'.value.selection = inventory
    /\ reply' \in {"response", "raised"}

\* this tool was run on every server of the inventory in this turn
RanOnInventory(tool_name) ==
    \A i \in 1..Len(inventory) :
        \E k \in 1..Len(executed') :
            /\ executed'[k].tool = tool_name
            /\ ServerIdentifier(inventory[i]) \in executed'[k].on

\* tools ran in this turn, and each tool that ran did so on every server
ExecutedOnInventory ==
    /\ executed' /= <<>>
    /\ \A k \in 1..Len(executed') : RanOnInventory(executed'[k].tool)

\* C14 as stated: a request that contains all, every, entire or both, and a
\* reply "all" while a selection is awaited, select every server of the
\* inventory and are planned and executed in the same turn on all of them; the
\* request does not make chat await a selection.
C14_AllIsExecutedOnEveryServer ==
    [][/\ RequestMentionsAll =>
            /\ PlannedOnInventory
            /\ ExecutedOnInventory
            /\ ~awaiting_server_choice'
       /\ ReplyAll =>
            /\ PlannedOnInventory
            /\ ExecutedOnInventory]_vars

\* C14, amended: such a request or reply selects every server of the
\* inventory and is planned in the same turn with all of them selected,
\* without a prompt for a selection; the request leaves chat not awaiting, and
\* so does the reply once chat answers.  When a keyword of the request gives
\* the plan, every tool of the plan runs on every server of the inventory.
\* (A plan of the planner LLM runs each task on the servers the task names,
\* and nothing runs when the planner LLM raises.)
C14_AllSelectsEveryServer ==
    [][/\ RequestMentionsAll =>
            /\ PlannedOnInventory
            /\ ~awaiting_server_choice'
       /\ ReplyAll =>
            /\ PlannedOnInventory
            /\ reply' = "response" => ~awaiting_server_choice'
       /\ (RequestMentionsAll \/ ReplyAll) =>
            LET tasks == KeywordPlanOf[planned'.value.request]
            IN  /\ tasks /= <<>> => ExecutedOnInventory
                /\ \A k \in 1..Len(tasks) : RanOnInventory(tasks[k].tool)]_vars

\* "stop all" with two servers: remote_tomcat_stop ran on both, nothing awaited
C14_Witness ==
    /\ Len(inventory) = 2
    /\ user_input = <<"s", "t", "o", "p", " ", "a", "l", "l">>
    /\ reply = "response"
    /\ ~awaiting_server_choice
    /\ ~planned.none
    /\ planned.value.request = user_input
    /\ planned.value.selection = inventory
    /\ Len(executed) = 2
    /\ \A k \in 1..2 : /\ executed[k].tool = "remote_tomcat_stop"
                       /\ executed[k].on = {ServerIdentifier(inventory[k])}

\* the reply "all" to the prompt that "check disk" caused, with two servers
C14_WitnessReply ==
    /\ Len(inventory) = 2
    /\ user_input = <<"a", "l", "l">>
    /\ reply = "response"
    /\ ~planned.none
    /\ planned.value.request = <<"c", "h", "e", "c", "k", " ", "d", "i", "s", "k">>
    /\ planned.value.selection = inventory
    /\ Len(executed) = 2


(***************************************************************************)
(* Claims about the local Tomcat tools                                     *)
(***************************************************************************)

\* C15, first half: StartTomcat.run and StopTomcat.run return "Failed" with
\* details "Tomcat is not installed" and launch no process when the Tomcat
\* home, its bin directory or the startup (shutdown) script is missing.
C15_MissingFilesFailWithoutLaunch ==
    /\ (/\ last.tool = "start_tomcat"
        /\ ~({"home", "bin", "startup"} \subseteq last.before)) =>
            /\ last.status = "Failed"
            /\ last.details = "Tomcat is not installed"
            /\ last.effects = {}
    /\ (/\ last.tool = "stop_tomcat"
        /\ ~({"home", "bin", "shutdown"} \subseteq last.before)) =>
            /\ last.status = "Failed"
            /\ last.details = "Tomcat is not installed"
            /\ last.effects = {}

C15_WitnessMissing ==
    /\ last.tool = "start_tomcat"
    /\ last.before = {}
    /\ last.status = "Failed"
    /\ last.details = "Tomcat is not installed"

\* C16, first half: InstallTomcat.run creates no directory, downloads,
\* extracts and configures nothing unless the four prerequisite checks ran and
\* passed in that call.
C16_NoInstallStepUnlessChecksPassed ==
    (/\ last.tool = "install_tomcat"
     /\ last.effects \cap {"makedirs", "download", "extract", "configure",
                           "remove"} /= {}) =>
        /\ "checks" \in last.effects
        /\ last.failed = {}

\* C16: InstallTomcat.run downloads, extracts and configures nothing unless
\* all four prerequisite checks passed in that call; when one of them fails
\* it returns "Failed", its details name the checks that failed, and the
\* install directory is as it was.
C16_FailedChecksAreNamed ==
    /\ C16_NoInstallStepUnlessChecksPassed
    /\ (last.tool = "install_tomcat" /\ last.failed /= {}) =>
            /\ last.status = "Failed"
            /\ last.details = "Failed prerequisite checks"
            /\ last.named = last.failed
            /\ files[last.path] = last.before

\* the disk check failed and InstallTomcat.run's result names no check
C16_Witness ==
    /\ last.tool = "install_tomcat"
    /\ last.failed = {"disk"}
    /\ last.named = {}
    /\ last.status = "Failed"
    /\ last.details = "Installation failed"
    /\ files[last.path] = last.before

\* C17: UninstallTomcat.run called on an installation whose Tomcat is running
\* returns "Failed" with "Stop it before uninstalling" and leaves the
\* directory as it was; it removes the directory only when Tomcat is not
\* running.
C17_NoUninstallWhileRunning ==
    last.tool = "uninstall_tomcat" =>
        /\ (/\ last.was_running
            /\ {"home", "bin", "startup"} \subseteq last.before) =>
                /\ last.status = "Failed"
                /\ last.details = "is running. Stop it before uninstalling."
                /\ files[last.path] = last.before
        /\ "rmtree" \in last.effects => ~last.was_running

\* UninstallTomcat.run removed the home of a Tomcat that is running
C17_Witness ==
    /\ last.tool = "uninstall_tomcat"
    /\ last.was_running
    /\ running[last.path]
    /\ last.status = "Success"
    /\ "home" \in last.before
    /\ "home" \notin files[last.path]

\* C18: InstallTomcat.run on an existing installation returns "Already
\* Exists" with the existing Tomcat home and does nothing else: no
\* prerequisite check, no download, no extraction, no environment change, no
\* removal, the directory is as it was; it returns "Already Exists" in no
\* other case, and after a call that returned "Success" or "Already Exists"
\* the installation exists, so that a second call changes nothing.
C18_ExistingInstallationUntouched ==
    last.tool = "install_tomcat" =>
        /\ ({"home", "bin", "startup"} \subseteq last.before) =>
                /\ last.status = "Already Exists"
                /\ last.home = Home(last.path)
                /\ last.effects = {}
                /\ files[last.path] = last.before
        /\ last.status = "Already Exists" =>
                {"home", "bin", "startup"} \subseteq last.before
        /\ last.status \in {"Success", "Already Exists"} =>
                {"home", "bin", "startup"} \subseteq files[last.path]

\* InstallTomcat.run found the default installation and left it alone
C18_Witness ==
    /\ last.tool = "install_tomcat"
    /\ ~last.given
    /\ last.status = "Already Exists"
    /\ last.before = Installed
    /\ files[INSTALL_DEFAULT_PATH] = Installed
    /\ last.effects = {}

\* C19: UninstallTomcat.run without arguments works on the install_path that
\* InstallTomcat.run without arguments works on, so that right after a default
\* install that returned "Success" or "Already Exists" the default uninstall
\* does not return "Not Found".
C19_DefaultUninstallFindsDefaultInstall ==
    [][(/\ last.tool = "install_tomcat"
        /\ ~last.given
        /\ last.status \in {"Success", "Already Exists"}
        /\ last'.tool = "uninstall_tomcat"
        /\ ~last'.given) =>
            /\ last'.path = last.path
            /\ last'.status /= "Not Found"]_vars

\* the default uninstall returned "Not Found" while the default installation
\* of InstallTomcat.run is in place
C19_Witness ==
    /\ last.tool = "uninstall_tomcat"
    /\ ~last.given
    /\ last.status = "Not Found"
    /\ last.path /= INSTALL_DEFAULT_PATH
    /\ {"home", "bin", "startup"} \subseteq files[INSTALL_DEFAULT_PATH]


\* C20, second and third part: when the start step of PostInstallTomcat.run
\* did not return "Success", run returns "Failed" without probing HTTP and
\* without invoking StopTomcat; and a successful probe followed by a stop
\* whose status is neither "Success" nor "Not Running" yields "Failed".
C20_FailedStartAndFailedStop ==
    last.tool = "post_install_tomcat" =>
        /\ (last.attempt_start /\ last.start_status /= "Success") =>
                /\ last.status = "Failed"
                /\ last.probes = 0
                /\ last.stops = 0
        /\ (/\ last.probe_ok
            /\ last.stops = 1
            /\ last.stop_status \notin {"Success", "Not Running"}) =>
                last.status = "Failed"

\* C20: in PostInstallTomcat.run with attempt_stop true, whenever the start
\* step succeeded or attempt_start is false, StopTomcat is invoked exactly
\* once before run returns, after a successful probe and after a timeout
\* alike; when the start step did not return "Success", run returns "Failed"
\* without probing and without invoking StopTomcat; and a successful probe
\* followed by a stop that is neither "Success" nor "Not Running" yields
\* "Failed".
C20_StopsExactlyOnceAfterStart ==
    /\ C20_FailedStartAndFailedStop
    /\ (/\ last.tool = "post_install_tomcat"
        /\ last.attempt_stop
        /\ (last.start_status = "Success" \/ ~last.attempt_start)) =>
            last.stops = 1

\* PostInstallTomcat.run started Tomcat, was to stop it, and returned without
\* invoking StopTomcat: Tomcat is still running
C20_Witness ==
    /\ last.tool = "post_install_tomcat"
    /\ last.attempt_start
    /\ last.attempt_stop
    /\ last.start_status = "Success"
    /\ last.status = "Failed"
    /\ last.stops = 0
    /\ running[last.path]

\* the probe was answered, the stop failed: "Failed" after one stop
C20_WitnessStopFailed ==
    /\ last.tool = "post_install_tomcat"
    /\ last.attempt_stop
    /\ last.probe_ok
    /\ last.stops = 1
    /\ last.stop_status = "Failed"
    /\ last.status = "Failed"

\* the probe timed out and StopTomcat was invoked once
C20_WitnessTimeout ==
    /\ last.tool = "post_install_tomcat"
    /\ last.attempt_stop
    /\ last.start_status = "Success"
    /\ ~last.probe_ok
    /\ last.probes > 0
    /\ last.stops = 1


(***************************************************************************)
(* Further claims about RemoteExecutor.run                                 *)
(***************************************************************************)

\* C24: every channel RemoteExecutor.run opened is closed when run has
\* returned or has raised TimeoutError; a call that gets that far has opened
\* exactly one channel (open_session and exec_command, once); no channel is
\* open while no call runs; and run on an executor that was not connected
\* raises RuntimeError without opening a channel.
C24_ChannelClosedOnReturnAndTimeout ==
    /\ pc \in {"returned", "raisedTimeout"} =>
            /\ chanState = "closed"
            /\ chanOpened = 1
    /\ pc = "raisedRuntime" =>
            /\ client = "none"
            /\ chanState = "none"
            /\ chanOpened = 0
    /\ pc \in {"drainOut", "drainErr", "poll", "sleep", "finalOut", "finalErr"} =>
            /\ client = "connected"
            /\ chanState = "open"
            /\ chanOpened = 1
    /\ pc = "idle" => chanOpened = 0

\* run raised TimeoutError and its one channel is closed
C24_Witness ==
    /\ pc = "raisedTimeout"
    /\ chanState = "closed"
    /\ chanOpened = 1
    /\ ~exitReady

\* run raised RuntimeError on an executor without a client
C24_WitnessNotConnected ==
    /\ pc = "raisedRuntime"
    /\ client = "none"
    /\ chanOpened = 0

\* C25: in RemoteExecutor.run completion takes priority over the deadline.
\* A poll that finds the exit status ready goes on to the final drain
\* whatever time has elapsed, and from there run returns; TimeoutError is
\* raised only at a poll where the exit status is not ready, the timeout is
\* positive and more than the timeout has elapsed; with timeout None or 0 run
\* never raises TimeoutError; and run returns only with the exit status
\* ready.
C25_CompletionBeforeDeadline ==
    /\ [][(pc = "poll" /\ pc' /= "poll" /\ exitReady) => pc' = "finalOut"]_vars
    /\ [][(pc \in {"finalOut", "finalErr"})
            => pc' \in {"finalOut", "finalErr", "returned"}]_vars
    /\ [][(pc /= "raisedTimeout" /\ pc' = "raisedTimeout") =>
            /\ pc = "poll"
            /\ ~exitReady
            /\ timeout > 0
            /\ clock - start_time > timeout]_vars
    /\ [](pc = "raisedTimeout" => timeout > 0)
    /\ [](pc = "returned" => exitReady)
    /\ (pc = "poll" /\ exitReady) ~> (pc = "returned")

\* run returned although more than the timeout had elapsed at its last poll
C25_Witness ==
    /\ pc = "returned"
    /\ timeout > 0
    /\ clock - start_time > timeout
    /\ exitReady

\* run without a timeout is still polling long after it began
C25_WitnessNoTimeout ==
    /\ pc = "poll"
    /\ timeout = 0
    /\ ~exitReady
    /\ clock - start_time > MaxTimeout

\* C26: when RemoteExecutor.run returns for a command whose exit status is
\* not zero, the returned stderr is not empty: it is the captured stderr, or
\* "Command exited with status N" when nothing was captured; when the exit
\* status is zero the returned stderr is exactly the captured stderr.
C26_StderrOfNonZeroExitNotEmpty ==
    pc = "returned" =>
        LET captured == Decode(Join(stderr_chunks))
        IN  /\ exit_status /= 0 =>
                /\ result.err /= <<>>
                /\ result.err = IF captured = <<>>
                                THEN <<"Command exited with status", exit_status>>
                                ELSE captured
            /\ exit_status = 0 => result.err = captured

\* exit status 1 without stderr: run returned the exit message
C26_Witness ==
    /\ pc = "returned"
    /\ exit_status = 1
    /\ stderr_chunks = <<>>
    /\ result.err = <<"Command exited with status", 1>>

\* exit status 0 without stderr: the returned stderr is empty
C26_WitnessZero ==
    /\ pc = "returned"
    /\ exit_status = 0
    /\ stderr_chunks = <<>>
    /\ result.err = <<>>


(***************************************************************************)
(* Further claims about RemoteWorkflowChatBot.chat                         *)
(***************************************************************************)

\* user_input.strip(), evaluated once for each input
StrippedInput == [input \in UserInputs |-> StripText(input)]

\* chat is called, while a selection is awaited, with a reply that
\* _parse_server_selection resolves to at least one presented server
ReplySelects ==
    /\ inventory /= <<>>
    /\ awaiting_server_choice
    /\ StrippedInput[user_input'] /= <<>>
    /\ ParseOf[StrippedInput[user_input']][Presented(inventory)] /= <<>>

\* the servers that reply resolves to
ParsedReply == ParseOf[StrippedInput[user_input']][Presented(inventory)]

\* chat is called, while no selection is awaited and servers are active, with
\* a request that names no server (and none of the words for all of them)
RequestNamesNoServer ==
    /\ inventory /= <<>>
    /\ ~awaiting_server_choice
    /\ ~active_servers.none
    /\ StrippedInput[user_input'] /= <<>>
    /\ DetectOf[StrippedInput[user_input']][inventory] = <<>>

\* the identifiers of these servers
IdentifierSet(servers) == {ServerIdentifier(servers[k]) : k \in 1..Len(servers)}

\* tools ran in this turn, each of them on every one of these servers, and
\* none of them on any other server
ExecutedExactlyOn(servers) ==
    /\ executed' /= <<>>
    /\ \A k \in 1..Len(executed') :
        /\ executed'[k].on \subseteq IdentifierSet(servers)
        /\ \A id \in IdentifierSet(servers) :
            \E j \in 1..Len(executed') :
                /\ executed'[j].tool = executed'[k].tool
                /\ id \in executed'[j].on

\* C21 as stated: a reply that parses to servers makes chat plan and execute
\* the pending request on exactly the parsed servers, record them as
\* active_servers and stop awaiting; a later request that names no server is
\* executed on the active servers without a prompt.
C21_ReplyRunsPendingRequestOnParsed ==
    [][/\ ReplySelects =>
            /\ planned' = Some([request |-> pending_request.value,
                                selection |-> ParsedReply])
            /\ ExecutedExactlyOn(ParsedReply)
            /\ active_servers' = Some(ParsedReply)
            /\ ~awaiting_server_choice'
       /\ RequestNamesNoServer =>
            /\ planned' = Some([request |-> StrippedInput[user_input'],
                                selection |-> MatchActiveServers(inventory)])
            /\ ExecutedExactlyOn(active_servers.value)
            /\ ~awaiting_server_choice'
            /\ reply' /= "prompt"]_vars

\* C21, amended: a reply that parses to servers makes chat plan the pending
\* request (not the reply) with exactly the parsed servers as the selection;
\* when chat returns its answer the parsed servers are the active servers and
\* no selection is awaited, and when the planner or the summary LLM raises
\* the selection state is as before.  A later request that names no server is
\* planned, without a prompt, with the active servers as the selection.  When
\* a keyword of the request gives the plan (and no LLM raises before), its
\* tools run on exactly the selected servers.
C21_ReplyPlansPendingRequestOnParsed ==
    [][/\ ReplySelects =>
            /\ planned' = Some([request |-> pending_request.value,
                                selection |-> ParsedReply])
            /\ reply' \in {"response", "raised"}
            /\ reply' = "response" =>
                    /\ active_servers' = Some(ParsedReply)
                    /\ ~awaiting_server_choice'
                    /\ pending_request' = None
            /\ reply' = "raised" =>
                    /\ awaiting_server_choice'
                    /\ pending_request' = pending_request
                    /\ active_servers' = active_servers
            /\ KeywordPlanOf[pending_request.value] /= <<>> =>
                    ExecutedExactlyOn(ParsedReply)
       /\ RequestNamesNoServer =>
            /\ planned' = Some([request |-> StrippedInput[user_input'],
                                selection |-> MatchActiveServers(inventory)])
            /\ IdentifierSet(MatchActiveServers(inventory))
                    = IdentifierSet(active_servers.value)
            /\ ~awaiting_server_choice'
            /\ reply' \in {"response", "raised"}
            /\ KeywordPlanOf[StrippedInput[user_input']] /= <<>> =>
                    ExecutedExactlyOn(active_servers.value)]_vars

\* the reply "2" to the prompt that "check disk" caused: the disk check ran
\* on the second server only, which is now the active server
C21_Witness ==
    /\ Len(inventory) = 2
    /\ user_input = <<"2">>
    /\ reply = "response"
    /\ planned = Some([request |-> <<"c", "h", "e", "c", "k", " ", "d", "i", "s", "k">>,
                       selection |-> <<inventory[2]>>])
    /\ Len(executed) = 1
    /\ executed[1].tool = "remote_disk_check"
    /\ executed[1].on = {ServerIdentifier(inventory[2])}
    /\ active_servers = Some(<<inventory[2]>>)
    /\ ~awaiting_server_choice
    /\ pending_request = None

\* "uninstall", which names no server, ran on the active server unprompted
C21_WitnessLater ==
    /\ Len(inventory) = 2
    /\ user_input = <<"u", "n", "i", "n", "s", "t", "a", "l", "l">>
    /\ reply = "response"
    /\ active_servers = Some(<<inventory[2]>>)
    /\ planned = Some([request |-> user_input, selection |-> <<inventory[2]>>])
    /\ executed /= <<>>
    /\ \A k \in 1..Len(executed) : executed[k].on = {ServerIdentifier(inventory[2])}
    /\ ~awaiting_server_choice


(***************************************************************************)
(* Claims about the lifetime of the executors                              *)
(***************************************************************************)

\* run_for_server is between the creation of its executor and its finally
\* block
InRunForServer == wpc \notin {"idle", "loop", "returned"}

\* run_for_server has returned at least once
RunForServerReturned == wpc \in {"loop", "returned"} /\ visited /= <<>>

\* C27: every RemoteExecutor on which run_for_server or RemoteToolAdapter.run
\* attempted connect() has close() called exactly once before the method
\* returns, on every path (connection failure, early return after a failed
\* Java or install stage, normal completion, an exception): inside either
\* method no close has happened yet, after it the executor it connected has
\* been closed once, and the adapter closes nothing where it created no
\* executor.
C27_ExecutorClosedExactlyOnce ==
    /\ InRunForServer => closeCalls = 0 /\ exState \in {"created", "connected", "failed"}
    /\ RunForServerReturned => closeCalls = 1 /\ exState = "closed"
    /\ apc \in {"connect", "body", "finally"} => acloses = 0 /\ aconnects <= 1
    /\ apc = "returned" =>
         /\ aconnects \in {0, 1}
         /\ acloses = aconnects
         /\ aexec = (IF aconnects = 1 THEN "closed" ELSE "none")
    /\ apc \in {"idle", "workflow"} => aconnects = 0 /\ acloses = 0 /\ aexec = "none"

\* run_for_server returned after a failed connection, its executor closed
C27_Witness ==
    /\ RunForServerReturned
    /\ results.st["connection"] = "Failed"
    /\ closeCalls = 1

\* run_for_server returned early after a failed Java stage
C27_WitnessJavaFailed ==
    /\ RunForServerReturned
    /\ results.st["pre_install_java"] = "Failed"
    /\ stages = <<"java">>
    /\ closeCalls = 1

\* run_for_server completed every stage
C27_WitnessCompleted ==
    /\ RunForServerReturned
    /\ results.st["post_install_tomcat_stop"] = "Success"
    /\ ~wexc
    /\ closeCalls = 1

\* an exception came out of run_for_server after its connection
C27_WitnessRaised ==
    /\ RunForServerReturned
    /\ wexc
    /\ stages /= <<>>
    /\ closeCalls = 1

\* the adapter returned after its tool raised, its executor closed
C27_WitnessAdapterRaised ==
    /\ apc = "returned"
    /\ aresult = AdapterFailed("tool raised")
    /\ acloses = 1

\* the adapter returned after a failed connection, its executor closed
C27_WitnessAdapterConnect ==
    /\ apc = "returned"
    /\ aresult = AdapterFailed("connect raised")
    /\ acloses = 1

\* the adapter ran the workflow tool, which closed its own executors
C27_WitnessAdapterWorkflow ==
    /\ apc = "returned"
    /\ aresult.details = "workflow returned"
    /\ visited /= <<>>
    /\ acloses = 0

(***************************************************************************)
(* Claims about RemoteWorkflowChatBot._parse_server_selection              *)
(***************************************************************************)

\* the reply is exactly the name or the host of the i-th presented server
ReplyIsIdentifierOf(i) ==
    sel_reply \in {sel_presented[i].name, sel_presented[i].host}

\* the reply is exactly the option number k
ReplyIsOption(k) == k \in 1..Len(OptionTexts) /\ sel_reply = OptionTexts[k]

\* the reply holds a digit
ReplyHasDigit == \E i \in 1..Len(sel_reply) : IsDigit(sel_reply[i])

\* C22: a reply that is exactly one presented server's name or host (an IP
\* address or a name containing digits included) selects exactly that server,
\* and a reply that is the option number k selects exactly the k-th presented
\* server.
C22_ReplySelectsExactlyThatServer ==
    ~sel_result.none =>
        /\ \A i \in 1..Len(sel_presented) :
               ReplyIsIdentifierOf(i) => sel_result.value = <<sel_presented[i]>>
        /\ \A k \in 1..Len(sel_presented) :
               ReplyIsOption(k) => sel_result.value = <<sel_presented[k]>>

\* what holds of C22: option numbers, and names and hosts without a digit,
\* select exactly their server; a name or host with digits selects its server
\* among the selected ones
C22_SelectsThatServerAmongOthers ==
    ~sel_result.none =>
        /\ \A i \in 1..Len(sel_presented) :
               ReplyIsIdentifierOf(i) =>
                   /\ \E n \in 1..Len(sel_result.value) :
                          sel_result.value[n] = sel_presented[i]
                   /\ ~ReplyHasDigit => sel_result.value = <<sel_presented[i]>>
        /\ \A k \in 1..Len(sel_presented) :
               ReplyIsOption(k) => sel_result.value = <<sel_presented[k]>>

\* the name db1 given in reply to the options 1. app, 2. db1 selects both
C22_Witness ==
    /\ sel_presented = SubSeq(ChatServers, 1, 2)
    /\ sel_reply = ChatServers[2].name
    /\ ~sel_result.none
    /\ sel_result.value = <<ChatServers[1], ChatServers[2]>>

\* the host 10.0.0.2 of app given in reply to the options 1. app, 2. db1
\* selects db1 first
C22_WitnessHost ==
    /\ sel_presented = SubSeq(ChatServers, 1, 2)
    /\ sel_reply = ChatServers[1].host
    /\ ~sel_result.none
    /\ sel_result.value = <<ChatServers[2], ChatServers[1]>>

\* the option number 2 selects the second presented server
C22_WitnessOption ==
    /\ Len(sel_presented) = 3
    /\ sel_reply = OptionTexts[2]
    /\ ~sel_result.none
    /\ sel_result.value = <<sel_presented[2]>>

(***************************************************************************)
(* Claims about the selection state of RemoteWorkflowChatBot               *)
(***************************************************************************)

\* the selection state between two calls of chat
SelectionStateConsistent ==
    /\ awaiting_server_choice <=> ~pending_request.none
    /\ awaiting_server_choice <=> ~presented_servers.none
    /\ selection_attempts \in 0..(MAX_SELECTION_ATTEMPTS - 1)
    /\ ~awaiting_server_choice => selection_attempts = 0

\* C28: after every call of chat, the calls in which the LLM or a tool raised
\* included, awaiting_server_choice is true if and only if pending_request is
\* not None, and if and only if presented_servers is not None;
\* selection_attempts is in 0..2 and is 0 whenever awaiting_server_choice is
\* false. A call with an empty or whitespace-only input changes neither this
\* state nor the history.
C28_SelectionStateConsistentAfterChat ==
    /\ []SelectionStateConsistent
    /\ [][StrippedInput[user_input'] = <<>>
          => UNCHANGED <<awaiting_server_choice, pending_request,
                         presented_servers, selection_attempts, history>>]_vars

\* a blank input while a choice is awaited after two replies that selected
\* nothing
C28_Witness ==
    /\ reply = "empty"
    /\ awaiting_server_choice
    /\ selection_attempts = MAX_SELECTION_ATTEMPTS - 1
    /\ ~pending_request.none
    /\ ~presented_servers.none

\* the LLM raised on the second prompt for a choice
C28_WitnessRaised ==
    /\ reply = "raised"
    /\ awaiting_server_choice
    /\ selection_attempts = MAX_SELECTION_ATTEMPTS - 1
    /\ executed = <<>>

\* the LLM raised while a plan was made for the servers of a reply
C28_WitnessRaisedInPlan ==
    /\ reply = "raised"
    /\ awaiting_server_choice
    /\ selection_attempts = 1
    /\ ~planned.none

(***************************************************************************)
(* Claims about ChatBot.execute_complex_workflow                           *)
(***************************************************************************)

\* the step just taken asked the LLM for a step
StepRequested == requests' = requests + 1

\* the answer to the step request is an object that reports the end of the
\* task
StepReportsCompleted ==
    /\ StepRequested
    /\ step_data'.kind = "object"
    /\ \/ LowerText(step_data'.taskStatus) = <<"c", "o", "m", "p", "l", "e", "t", "e", "d">>
       \/ step_data'.tool = "none"

\* the answer to the step request is an object that names a tool which is
\* not registered
StepNamesUnregisteredTool ==
    /\ StepRequested
    /\ step_data'.kind = "object"
    /\ step_data'.tool \notin RegisteredTools

\* the method is left once, after at most max_steps step requests and at most
\* one tool invocation for each of them
TerminatesWithinMaxSteps ==
    /\ <>(cpc \in {"returned", "raised"})
    /\ [](/\ requests <= max_steps
          /\ requests = step_count
          /\ invocations <= requests
          /\ summaries <= 1
          /\ (creturn = "summary") <=> (summaries = 1))
    /\ [][/\ invocations' \in {invocations, invocations + 1}
          /\ invocations' /= invocations => StepRequested
          /\ cpc \in {"returned", "raised"} => FALSE]_vars

\* a step that reports the end of the task returns the final summary at once,
\* with no tool invoked
StopsWithSummaryWhenCompleted ==
    [][StepReportsCompleted
       => /\ cpc' = "returned"
          /\ creturn' = "summary"
          /\ summaries' = summaries + 1
          /\ invocations' = invocations]_vars

\* C23: execute_complex_workflow always terminates, provided each LLM call and
\* each tool call returns: it makes at most 10 step requests and at most 10
\* tool invocations, it stops with the final summary as soon as a step reports
\* taskStatus "completed" (or tool "none"), and a step naming a tool that is
\* not registered invokes no tool and ends the loop.
C23_TerminatesAndUnregisteredToolEndsLoop ==
    /\ TerminatesWithinMaxSteps
    /\ StopsWithSummaryWhenCompleted
    /\ [][StepNamesUnregisteredTool
          => /\ invocations' = invocations
             /\ cpc' /= "loop"]_vars

\* what holds of C23: termination, the bounds, the stop with the summary, and
\* for a tool that is not registered: no tool is invoked, and the loop ends
\* when the step's status is empty, "completed" or "inprogress" in any case of
\* letters
C23_TerminatesAndInProgressUnregisteredEndsLoop ==
    /\ TerminatesWithinMaxSteps
    /\ StopsWithSummaryWhenCompleted
    /\ [][StepNamesUnregisteredTool
          => /\ invocations' = invocations
             /\ (WorkflowCompleted(step_data') \/ InProgress(step_data'))
                    => cpc' /= "loop"]_vars

\* a step with the status "running" names a tool that is not registered, and
\* the loop goes on
C23_Witness ==
    /\ cpc = "loop"
    /\ step_data.kind = "object"
    /\ step_data.tool = "format_disk"
    /\ step_data.taskStatus = <<"r", "u", "n", "n", "i", "n", "g">>
    /\ requests >= 1

\* ten steps were requested, each ran a tool, and the method returned the
\* message about the maximum number of steps
C23_WitnessMaxSteps ==
    /\ cpc = "returned"
    /\ creturn = "attempted"
    /\ requests = max_steps
    /\ invocations = max_steps

\* the final summary was returned after a step reported "Completed"
C23_WitnessSummary ==
    /\ cpc = "returned"
    /\ creturn = "summary"
    /\ step_data.kind = "object"
    /\ step_data.taskStatus = <<"C", "o", "m", "p", "l", "e", "t", "e", "d">>
    /\ step_data.tool \in RegisteredTools
    /\ invocations >= 1
====
